---- MODULE Spec2Model ----
(***************************************************************************)
(* HTTP message signatures (http-msg-sig): createSignatureForRequest and   *)
(* verifySignatureOfRequest of src/src/index.js as a state machine.        *)
(*                                                                         *)
(* Texts (header values, signature bases, error messages) are sequences of *)
(* lexical tokens: a quoted string, an integer, a byte sequence, a bare    *)
(* key, a punctuation mark.  Two texts are byte-identical exactly when     *)
(* their token sequences are equal.                                        *)
(***************************************************************************)
EXTENDS Integers, Sequences, FiniteSets, TLC

(***************************************************************************)
(* Tokens and texts                                                        *)
(***************************************************************************)
Tk(k, s, n, b) == [k |-> k, s |-> s, n |-> n, b |-> b]
Key(s) == Tk("key", s, 0, <<>>)
Str(s) == Tk("str", s, 0, <<>>)
Num(n) == Tk("int", "", n, <<>>)
Bin(b) == Tk("bin", "", 0, b)
Bool(s) == Tk("bool", s, 0, <<>>)
Pn(s) == Tk("p", s, 0, <<>>)
Raw(s) == Tk("raw", s, 0, <<>>)

TrueVal == Bool("1")
Undefined == Tk("undefined", "", 0, <<>>)

RECURSIVE Join(_, _)
Join(texts, sep) ==
    IF texts = <<>> THEN <<>>
    ELSE IF Len(texts) = 1 THEN texts[1]
    ELSE texts[1] \o sep \o Join(Tail(texts), sep)

Drop(t, n) == IF n >= Len(t) THEN <<>> ELSE SubSeq(t, n + 1, Len(t))

(***************************************************************************)
(* Items, parameters and dictionaries of the structured-field codec        *)
(***************************************************************************)
\* new Item(value, params): params is an ordered list of key/value pairs
BareItem(v, params) == [kind |-> "bare", value |-> v, items |-> <<>>, params |-> params]
InnerList(items, params) == [kind |-> "inner", value |-> Undefined, items |-> items, params |-> params]
Param(k, v) == [key |-> k, value |-> v]
Member(k, item) == [key |-> k, item |-> item]

\* obj[key] on an ordered key/value list: the value, or undefined
ParamGet(params, key) ==
    IF \E i \in 1..Len(params) : params[i].key = key
    THEN params[CHOOSE i \in 1..Len(params) : params[i].key = key].value
    ELSE Undefined

ParamKeys(params) == {params[i].key : i \in 1..Len(params)}

\* a later pair with the same key overwrites the value and keeps the place
ParamSet(params, key, v) ==
    IF \E i \in 1..Len(params) : params[i].key = key
    THEN [i \in 1..Len(params) |-> IF params[i].key = key THEN Param(key, v) ELSE params[i]]
    ELSE Append(params, Param(key, v))

MemberSet(dict, key, item) ==
    IF \E i \in 1..Len(dict) : dict[i].key = key
    THEN [i \in 1..Len(dict) |-> IF dict[i].key = key THEN Member(key, item) ELSE dict[i]]
    ELSE Append(dict, Member(key, item))

DictHas(dict, key) == \E i \in 1..Len(dict) : dict[i].key = key
DictGet(dict, key) == dict[CHOOSE i \in 1..Len(dict) : dict[i].key = key].item
DictKeys(dict) == [i \in 1..Len(dict) |-> dict[i].key]

\* names the codec cannot serialize as a key, and strings it cannot serialize
BadKeys == {"Sig=Bad"}
BadStrings == {"x-caf\\u00e9"}

Throw == [ok |-> FALSE]
Okay(v) == [ok |-> TRUE, val |-> v]

IsBareValue(v) == v.k \in {"str", "int", "bin", "tok", "bool"}

(***************************************************************************)
(* encodeItem / encodeDict: serialization                                  *)
(***************************************************************************)
EncodeBare(v) ==
    IF ~IsBareValue(v) THEN Throw
    ELSE IF v.k = "str" /\ v.s \in BadStrings THEN Throw
    ELSE Okay(<<v>>)

\* two serialized parts one after the other; a part that threw throws
OkCat(a, b) == IF a.ok /\ b.ok THEN Okay(a.val \o b.val) ELSE Throw

\* ;key or ;key=value
\* a parameter whose value is a string is written as its key alone
EncodeParamStringAsFlag(p) ==
    IF p.key \in BadKeys THEN Throw
    ELSE IF p.value = TrueVal \/ p.value.k = "str" THEN Okay(<<Pn(";"), Key(p.key)>>)
    ELSE OkCat(Okay(<<Pn(";"), Key(p.key), Pn("=")>>), EncodeBare(p.value))

EncodeParam(p) ==
    IF p.key \in BadKeys THEN Throw
    ELSE IF p.value = TrueVal THEN Okay(<<Pn(";"), Key(p.key)>>)
    ELSE OkCat(Okay(<<Pn(";"), Key(p.key), Pn("=")>>), EncodeBare(p.value))

RECURSIVE EncodeParams(_)
EncodeParams(params) ==
    IF params = <<>> THEN Okay(<<>>)
    ELSE OkCat(EncodeParam(Head(params)), EncodeParams(Tail(params)))

\* encodeItem: a bare item is its value and its parameters; an inner list is
\* "(", its items separated by one space, ")" and its parameters
encodeItem(item) ==
    LET EncodeBareItem(it) == OkCat(EncodeBare(it.value), EncodeParams(it.params))
        RECURSIVE EncodeItems(_, _)
        EncodeItems(items, i) ==
            IF i > Len(items) THEN Okay(<<>>)
            ELSE OkCat(OkCat(Okay(IF i = 1 THEN <<>> ELSE <<Pn(" ")>>),
                             EncodeBareItem(items[i])),
                       EncodeItems(items, i + 1))
    IN  IF item.kind = "inner"
        THEN OkCat(OkCat(OkCat(Okay(<<Pn("(")>>), EncodeItems(item.items, 1)),
                         Okay(<<Pn(")")>>)),
                   EncodeParams(item.params))
        ELSE EncodeBareItem(item)

\* encodeDict: the members separated by a comma and a space; a member is its
\* key, then "=" and its value unless the value is true
encodeDict(dict) ==
    LET EncodeMember(m) ==
            IF m.key \in BadKeys THEN Throw
            ELSE IF m.item.kind = "bare" /\ m.item.value = TrueVal
            THEN OkCat(Okay(<<Key(m.key)>>), EncodeParams(m.item.params))
            ELSE OkCat(Okay(<<Key(m.key), Pn("=")>>), encodeItem(m.item))
        RECURSIVE EncodeMembers(_)
        EncodeMembers(i) ==
            IF i > Len(dict) THEN Okay(<<>>)
            ELSE OkCat(OkCat(Okay(IF i = 1 THEN <<>> ELSE <<Pn(","), Pn(" ")>>),
                             EncodeMember(dict[i])),
                       EncodeMembers(i + 1))
    IN  EncodeMembers(1)

(***************************************************************************)
(* decodeDict: parsing                                                     *)
(***************************************************************************)
Parsed(v, rest) == [ok |-> TRUE, val |-> v, rest |-> rest]

RECURSIVE SkipSP(_)
SkipSP(t) == IF t # <<>> /\ Head(t) = Pn(" ") THEN SkipSP(Tail(t)) ELSE t

\* the parameters that follow a value: ;key or ;key=value, any number of them
RECURSIVE ParseParams(_, _)
ParseParams(t, acc) ==
    LET \* after the key: "=" and a bare value, or nothing (true)
        ParseParamValue(key, t2) ==
            IF t2 # <<>> /\ Head(t2) = Pn("=")
            THEN IF Len(t2) < 2 \/ ~IsBareValue(t2[2]) THEN Throw
                 ELSE ParseParams(Drop(t2, 2), ParamSet(acc, key, t2[2]))
            ELSE ParseParams(t2, ParamSet(acc, key, TrueVal))
        \* after the ";" and the spaces that follow it
        ParseParam(t1) ==
            IF t1 = <<>> \/ Head(t1).k # "key" THEN Throw
            ELSE ParseParamValue(Head(t1).s, Tail(t1))
    IN  IF t = <<>> \/ Head(t) # Pn(";") THEN Parsed(acc, t)
        ELSE ParseParam(SkipSP(Tail(t)))

\* a member value: a bare item, or an inner list of bare items, with parameters
ParseItemOrInnerList(t) ==
    LET ItemOf(v, ps) == IF ps.ok THEN Parsed(BareItem(v, ps.val), ps.rest) ELSE Throw
        ParseItem(t0) ==
            IF t0 = <<>> \/ ~IsBareValue(Head(t0)) THEN Throw
            ELSE ItemOf(Head(t0), ParseParams(Tail(t0), <<>>))
        InnerListOf(items, ps) ==
            IF ps.ok THEN Parsed(InnerList(items, ps.val), ps.rest) ELSE Throw
        RECURSIVE ParseInnerAt(_, _)
        \* an item of an inner list must be followed by a space or by ")"
        ParseInnerNext(it, acc) ==
            IF ~it.ok THEN Throw
            ELSE IF it.rest = <<>> \/ Head(it.rest) \notin {Pn(" "), Pn(")")} THEN Throw
            ELSE ParseInnerAt(SkipSP(it.rest), Append(acc, it.val))
        ParseInnerAt(t1, acc) ==
            IF t1 = <<>> THEN Throw
            ELSE IF Head(t1) = Pn(")") THEN InnerListOf(acc, ParseParams(Tail(t1), <<>>))
            ELSE ParseInnerNext(ParseItem(t1), acc)
    IN  IF t # <<>> /\ Head(t) = Pn("(") THEN ParseInnerAt(SkipSP(Tail(t)), <<>>)
        ELSE ParseItem(t)

\* the members of a dictionary: key, or key=value, separated by commas
RECURSIVE ParseDictionary(_, _)
ParseDictionary(t, acc) ==
    LET TrueOf(ps) == IF ps.ok THEN Parsed(BareItem(TrueVal, ps.val), ps.rest) ELSE Throw
        \* after the key of a member: "=" and its value, or parameters of a true
        ParseMember(t1) ==
            IF t1 # <<>> /\ Head(t1) = Pn("=")
            THEN ParseItemOrInnerList(Tail(t1))
            ELSE TrueOf(ParseParams(t1, <<>>))
        \* after a comma and the spaces that follow it: a trailing comma is an error
        ParseDictAfterComma(t3, dict) == IF t3 = <<>> THEN Throw ELSE ParseDictionary(t3, dict)
        \* after a member and the spaces that follow it: the end, or a comma
        ParseDictNext(t2, dict) ==
            IF t2 = <<>> THEN Okay(dict)
            ELSE IF Head(t2) # Pn(",") THEN Throw
            ELSE ParseDictAfterComma(SkipSP(Tail(t2)), dict)
        ParseDictMember(key, member) ==
            IF ~member.ok THEN Throw
            ELSE ParseDictNext(SkipSP(member.rest), MemberSet(acc, key, member.val))
    IN  IF t = <<>> THEN Okay(acc)
        ELSE IF Head(t).k # "key" THEN Throw
        ELSE ParseDictMember(Head(t).s, ParseMember(Tail(t)))

\* decodeDict trims the text, parses every member and rejects trailing text
decodeDict(text) == ParseDictionary(SkipSP(text), <<>>)

(***************************************************************************)
(* Outcomes (neverthrow Result) and errors                                 *)
(***************************************************************************)
ok(v) == [kind |-> "ok", value |-> v]
Error(type, message, context) == [type |-> type, message |-> message, context |-> context]
err(e) == [kind |-> "err", error |-> e]
\* an exception that escapes the async function: the returned promise rejects
Rejects(what) == [kind |-> "reject", reason |-> what]
NoResult == [kind |-> "none"]

\* JavaScript truthiness of a parameter value
Falsy(v) ==
    \/ v = Undefined
    \/ v.k = "str" /\ v.s = ""
    \/ v.k = "int" /\ v.n = 0
    \/ v = Bool("0")

(***************************************************************************)
(* The request view: method, URL, Headers, body                            *)
(***************************************************************************)
\* Headers.get lowercases the name it is given
Lower(name) ==
    CASE name = "Content-Digest" -> "content-digest"
      [] name = "Content-Type" -> "content-type"
      [] OTHER -> name

\* Headers.get throws a TypeError for a name that is no HTTP token
HeadersGet(headers, name) ==
    IF name \in {"@signature-params", "@status", ""} THEN [kind |-> "throw"]
    ELSE IF \E i \in 1..Len(headers) : headers[i].name = Lower(name)
    THEN [kind |-> "value",
          val |-> headers[CHOOSE i \in 1..Len(headers) : headers[i].name = Lower(name)].value]
    ELSE [kind |-> "null"]

\* the last value under the name, or null
SearchParamsGetLast(query, name) ==
    IF name.k = "str" /\ \E i \in 1..Len(query) : query[i][1] = name.s
    THEN [kind |-> "value",
          val |-> query[CHOOSE i \in 1..Len(query) :
                          /\ query[i][1] = name.s
                          /\ \A j \in (i + 1)..Len(query) : query[j][1] # name.s][2]]
    ELSE [kind |-> "null"]

\* URLSearchParams.get: the first value under the name, or null
SearchParamsGet(query, name) ==
    IF name.k = "str" /\ \E i \in 1..Len(query) : query[i][1] = name.s
    THEN [kind |-> "value",
          val |-> query[CHOOSE i \in 1..Len(query) :
                          /\ query[i][1] = name.s
                          /\ \A j \in 1..(i - 1) : query[j][1] # name.s][2]]
    ELSE [kind |-> "null"]

\* text.slice(0, -1)
SliceDropLast(t) == IF t = <<>> THEN <<>> ELSE SubSeq(t, 1, Len(t) - 1)

(***************************************************************************)
(* createSignatureForRequest                                               *)
(***************************************************************************)
\* typeof input === 'string' ? new Item(input, {}) : new Item(input.component, input.parameters)
ItemOfInput(input) ==
    IF input.simple THEN BareItem(Str(input.component), <<>>)
    ELSE BareItem(Str(input.component), input.parameters)

Resolved(keyText, value) == [kind |-> "ok", key |-> keyText, value |-> value]
Failed(e) == [kind |-> "err", error |-> e]
Thrown == [kind |-> "throw"]

MissingNameError(stringOfKey) ==
    Error("validation", <<Raw("Invalid signature input")>>,
          <<Raw("Signature input is missing required parameter \"name\" in signature input for field ")>>
            \o stringOfKey)

MissingQueryParamError(name, stringOfKey) ==
    Error("validation", <<Raw("Missing query parameter: "), name>>,
          <<Raw("Request is missing query parameter \""), name,
            Raw("\" required in signature input for field ")>> \o stringOfKey)

MissingHeaderError(name, stringOfKey) ==
    Error("validation", <<Raw("Missing header: "), Raw(name)>>,
          <<Raw("Request is missing header \""), Raw(name),
            Raw("\" required in signature input for field ")>> \o stringOfKey)

EncodeKeyError == Error("encoding", <<Raw("Failed to encode signature input key")>>, <<Raw("thrown")>>)

\* the switch on item.value of the signing loop
SignResolve(item, stringOfKey, request) ==
    LET url == request.url
        v == item.value.s
    IN  CASE v = "@method" -> Resolved(stringOfKey, <<Raw(request.method)>>)
          [] v = "@target-uri" -> Resolved(stringOfKey, url.href)
          [] v = "@authority" -> Resolved(stringOfKey, url.hostname)
          [] v = "@scheme" -> Resolved(stringOfKey, SliceDropLast(url.protocol))
          [] v = "@path" -> Resolved(stringOfKey, url.pathname)
          [] v = "@query" -> Resolved(stringOfKey, IF Len(url.search) > 0 THEN url.search ELSE <<>>)
          [] v = "@query-param" ->
                LET name == ParamGet(item.params, "name")
                    value == SearchParamsGet(url.searchParams, name)
                IN  IF Falsy(name) THEN Failed(MissingNameError(stringOfKey))
                    ELSE IF value.kind = "null"
                    THEN Failed(MissingQueryParamError(name, stringOfKey))
                    ELSE Resolved(stringOfKey, value.val)
          [] OTHER ->
                LET value == HeadersGet(request.headers, v)
                IN  IF value.kind = "throw" THEN Thrown
                    ELSE IF value.kind = "null" THEN Failed(MissingHeaderError(v, stringOfKey))
                    ELSE Resolved(stringOfKey, value.val)

\* one turn of the for loop: encode the key, then resolve the value
SignPair(input, request) ==
    LET SignPairKeyed(item, resultOfStringOfKey) ==
            IF ~resultOfStringOfKey.ok THEN Failed(EncodeKeyError)
            ELSE SignResolve(item, resultOfStringOfKey.val, request)
        SignPairOf(item) == SignPairKeyed(item, encodeItem(item))
    IN  SignPairOf(ItemOfInput(input))

\* the loop passing over the identifiers that do not resolve
RECURSIVE SignPairsSkipping(_, _, _)
SignPairsSkipping(inputs, request, acc) ==
    IF inputs = <<>> THEN [kind |-> "ok", pairs |-> acc]
    ELSE SignPairsSkipping(Tail(inputs), request,
                           IF SignPair(Head(inputs), request).kind = "ok"
                           THEN Append(acc, SignPair(Head(inputs), request))
                           ELSE acc)

\* the for loop over signatureInputs: the pairs pushed, or the first failure
RECURSIVE SignPairs(_, _, _)
SignPairs(inputs, request, acc) ==
    LET SignPairsNext(r) ==
            IF r.kind = "ok" THEN SignPairs(Tail(inputs), request, Append(acc, r)) ELSE r
    IN  IF inputs = <<>> THEN [kind |-> "ok", pairs |-> acc]
        ELSE SignPairsNext(SignPair(Head(inputs), request))

\* pairs.map((pair) => pair.join(': ')).join('\n')
JoinPairs(pairs) ==
    Join([i \in 1..Len(pairs) |-> pairs[i].key \o <<Pn(": ")>> \o pairs[i].value],
         <<Pn("\n")>>)

SignatureParamsKey == <<Str("@signature-params")>>

\* the text from the "=" after the label on
FromEquals(text, labelLength) == Drop(text, labelLength)

\* stringOfSignatureInputDictionary.slice(signatureLabel.length + 1)
SignSignatureParamsValue(text, labelLength) == Drop(text, labelLength + 1)


EncodeInputError == Error("encoding", <<Raw("Failed to encode signature input dictionary")>>, <<Raw("thrown")>>)

\* lines 26-124: up to the call of sign().  Either the call returns at once
\* (an error, or an exception that escapes), or it reaches the await.
SignHead(in) ==
    LET \* lines 121-124: the last line of the base and the join of the lines
        SignBaseOf(text, pairs) ==
            JoinPairs(Append(pairs,
                Resolved(SignatureParamsKey,
                         SignSignatureParamsValue(text, Len(<<Key(in.signatureLabel)>>)))))
        \* lines 37-124 once the dictionary is encoded and the loop has run
        SignHeadOf(resultOfStringOfSignatureInputDictionary, loop) ==
            IF ~resultOfStringOfSignatureInputDictionary.ok
            THEN [kind |-> "return", result |-> err(EncodeInputError)]
            ELSE IF loop.kind = "err" THEN [kind |-> "return", result |-> err(loop.error)]
            ELSE IF loop.kind = "throw"
            THEN [kind |-> "return", result |-> Rejects("TypeError")]
            ELSE [kind |-> "await",
                  signatureInput |-> resultOfStringOfSignatureInputDictionary.val,
                  signatureBase |-> SignBaseOf(resultOfStringOfSignatureInputDictionary.val,
                                               loop.pairs)]
    IN  SignHeadOf(encodeDict(<<Member(in.signatureLabel,
                                       InnerList([i \in 1..Len(in.signatureInputs) |->
                                                     ItemOfInput(in.signatureInputs[i])],
                                                 in.additionalParams))>>),
                   SignPairs(in.signatureInputs, in.request, <<>>))

\* new Uint8Array(signature)
ToUint8Array(signature) ==
    CASE signature.t = "bytes" -> Okay(signature.b)
      [] signature.t = "length" -> Okay([i \in 1..signature.n |-> 0])
      [] OTHER -> Throw

\* the rejection mapped the way verifySignatureOfRequest maps one
SignFailedAsValidation(error) ==
    Error("validation", <<Raw("Signature verification didn't pass")>>, <<Raw(error)>>)

\* lines 129-133: the rejection of the sign promise, mapped to an error
SignFailedError(error) == Error("error", <<Raw("Failed to sign request")>>, <<Raw(error)>>)
Uint8ArrayError ==
    Error("encoding", <<Raw("Invalid data in provided signature. Failed to create signature Uint8Array")>>,
          <<Raw("thrown")>>)
EncodeSignatureError == Error("encoding", <<Raw("Failed to encode signature dictionary")>>, <<Raw("thrown")>>)

\* lines 136-173: after the sign() promise settled with `outcome`
SignTail(in, loc, outcome) ==
    LET \* lines 158-173: the signature dictionary and the value returned
        SignReturn(resultOfStringOfSignatureDictionary) ==
            IF ~resultOfStringOfSignatureDictionary.ok THEN err(EncodeSignatureError)
            ELSE ok([signatureInput |-> loc.signatureInput,
                     signature |-> resultOfStringOfSignatureDictionary.val,
                     signatureBase |-> loc.signatureBase])
        \* lines 144-157: the bytes of the signature
        SignEncode(resultOfSignatureUint8Array) ==
            IF ~resultOfSignatureUint8Array.ok THEN err(Uint8ArrayError)
            ELSE SignReturn(encodeDict(<<Member(in.signatureLabel,
                                BareItem(Bin(resultOfSignatureUint8Array.val), <<>>))>>))
    IN  IF outcome.kind = "reject" THEN err(SignFailedError(outcome.reason))
        ELSE IF outcome.kind = "err" THEN err(outcome.error)
        ELSE SignEncode(ToUint8Array(outcome.value))

(***************************************************************************)
(* verifySignatureOfRequest                                                *)
(***************************************************************************)
\* property names every plain object inherits from Object.prototype
ObjectPrototypeKeys == {"constructor", "toString", "valueOf", "hasOwnProperty", "__proto__"}

\* `name in obj` for a plain object with the given own keys
In(name, ownKeys) == name \in ownKeys \/ name \in ObjectPrototypeKeys

ValidationError(message, context) == Error("validation", message, context)

InputParseError == ValidationError(<<Raw("Invalid signature input")>>, <<Raw("thrown")>>)
InputLabelError(label) ==
    ValidationError(<<Raw("Invalid signature input")>>,
        <<Raw("Signature Input is not a dictionary or does not contain \""), Raw(label), Raw("\" field")>>)
InputShapeError(label) ==
    ValidationError(<<Raw("Invalid signature input")>>,
        <<Raw("Invalid signature input for \""), Raw(label), Raw("\"")>>)
InputItemError == ValidationError(<<Raw("Invalid signature input")>>, <<Raw("Invalid signature input")>>)
SignatureParseError == ValidationError(<<Raw("Invalid signature")>>, <<Raw("thrown")>>)
SignatureLabelError(label) ==
    ValidationError(<<Raw("Invalid signature")>>,
        <<Raw("Signature is not a dictionary or does not contain \""), Raw(label), Raw("\" field")>>)
\* the shape error of the signature side under the message of the input side
SignatureShapeAsInputError ==
    ValidationError(<<Raw("Invalid signature input")>>, <<Raw("Invalid signature")>>)
SignatureShapeError == ValidationError(<<Raw("Invalid signature")>>, <<Raw("Invalid signature")>>)
MissingInputError(input) ==
    ValidationError(<<Raw("Invalid signature")>>,
        <<Raw("Missing required input field \""),
          Raw(IF input.simple THEN input.component ELSE "[object Object]"),
          Raw("\" in signature input")>>)
MissingParamError(name) ==
    ValidationError(<<Raw("Invalid signature")>>,
        <<Raw("Missing required parameter \""), Raw(name), Raw("\" in signature input")>>)
InvalidCreatedError ==
    ValidationError(<<Raw("Invalid signature")>>, <<Raw("Invalid parameter \"created\" in signature input")>>)
ExpiredError == ValidationError(<<Raw("Signature expired")>>, <<Raw("Signature expired")>>)

\* lines 281-284: signatureInput.find(...) for one required input
HasRequiredInput(signatureInput, input) ==
    LET InputMatches(item) ==
            IF input.simple THEN item.value = Str(input.component)
            ELSE /\ item.value = Str(input.component)
                 /\ \A i \in 1..Len(input.parameters) :
                        ParamGet(item.params, input.parameters[i].key)
                            = input.parameters[i].value
    IN  \E i \in 1..Len(signatureInput) : InputMatches(signatureInput[i])

\* the first required input (in the caller's order) that no item matches, or 0
FirstMissingInput(signatureInput, requiredInputs) ==
    IF \A i \in 1..Len(requiredInputs) : HasRequiredInput(signatureInput, requiredInputs[i])
    THEN 0
    ELSE CHOOSE i \in 1..Len(requiredInputs) :
            /\ ~HasRequiredInput(signatureInput, requiredInputs[i])
            /\ \A j \in 1..(i - 1) : HasRequiredInput(signatureInput, requiredInputs[j])

\* lines 296-297: requiredParam in signatureInputParams
HasRequiredParam(requiredParam, signatureInputParams) ==
    In(requiredParam, ParamKeys(signatureInputParams))

FirstMissingParam(signatureInputParams, requiredParams) ==
    IF \A i \in 1..Len(requiredParams) : HasRequiredParam(requiredParams[i], signatureInputParams)
    THEN 0
    ELSE CHOOSE i \in 1..Len(requiredParams) :
            /\ ~HasRequiredParam(requiredParams[i], signatureInputParams)
            /\ \A j \in 1..(i - 1) : HasRequiredParam(requiredParams[j], signatureInputParams)

\* lines 322-323: (Date.now() / 1000 - paramCreated) > maxAge, in milliseconds
\* too far from the clock in either direction
IsFarFromNow(nowMs, paramCreated, maxAge) ==
    \/ nowMs - paramCreated.n * 1000 > maxAge * 1000
    \/ paramCreated.n * 1000 - nowMs > maxAge * 1000

IsExpired(nowMs, paramCreated, maxAge) == nowMs - paramCreated.n * 1000 > maxAge * 1000

DictKeySet(dict) == {dict[i].key : i \in 1..Len(dict)}

\* lines 205-276: both headers parsed and narrowed to the label
VerifyParse(in) ==
    LET label == in.signatureLabel
        \* lines 226-245: the entry is a non-empty inner list of strings
        InputItemOf(signatureInputDictItem) ==
            IF signatureInputDictItem.kind # "inner" \/ Len(signatureInputDictItem.items) < 1
            THEN Failed(InputShapeError(label))
            ELSE IF \E i \in 1..Len(signatureInputDictItem.items) :
                       signatureInputDictItem.items[i].value.k # "str"
            THEN Failed(InputItemError)
            ELSE [kind |-> "ok", item |-> signatureInputDictItem]
        \* lines 205-245: the Signature-Input dictionary and its entry under the label
        InputOf(resultOfSignatureInputDict) ==
            IF ~resultOfSignatureInputDict.ok THEN Failed(InputParseError)
            ELSE IF ~In(label, DictKeySet(resultOfSignatureInputDict.val))
            THEN Failed(InputLabelError(label))
            ELSE IF ~DictHas(resultOfSignatureInputDict.val, label)
            THEN Failed(InputShapeError(label))
            ELSE InputItemOf(DictGet(resultOfSignatureInputDict.val, label))
        \* lines 269-276: the entry under the label is a byte sequence
        SignatureValueOf(signatureDictValue) ==
            IF signatureDictValue.kind # "bare" \/ signatureDictValue.value.k # "bin"
            THEN Failed(SignatureShapeError)
            ELSE [kind |-> "ok", bytes |-> signatureDictValue.value.b]
        \* lines 247-276: the Signature dictionary and its entry under the label
        SignatureOf(resultOfSignatureDict) ==
            IF ~resultOfSignatureDict.ok THEN Failed(SignatureParseError)
            ELSE IF ~In(label, DictKeySet(resultOfSignatureDict.val))
            THEN Failed(SignatureLabelError(label))
            ELSE IF ~DictHas(resultOfSignatureDict.val, label) THEN Failed(SignatureShapeError)
            ELSE SignatureValueOf(DictGet(resultOfSignatureDict.val, label))
        \* the checks of the Signature-Input header come before those of Signature
        ParsedOf(input, signature) ==
            IF input.kind = "err" THEN input
            ELSE IF signature.kind = "err" THEN signature
            ELSE [kind |-> "ok",
                  signatureInput |-> input.item.items,
                  signatureInputParams |-> input.item.params,
                  providedSignature |-> signature.bytes]
    IN  ParsedOf(InputOf(decodeDict(in.stringOfSignatureInputDictionary)),
                 SignatureOf(decodeDict(in.stringOfSignatureDictionary)))

\* lines 280-329: required inputs, required params, created, age
VerifyPolicy(in, parsed, nowMs) ==
    LET \* lines 306-329: created is present, is a number, and is not too old
        CreatedCheck(paramCreated) ==
            \* line 308: !paramCreated
            IF Falsy(paramCreated) THEN Failed(MissingParamError("created"))
            \* line 315: typeof paramCreated !== 'number'
            ELSE IF paramCreated.k # "int" THEN Failed(InvalidCreatedError)
            ELSE IF IsExpired(nowMs, paramCreated, in.maxAge) THEN Failed(ExpiredError)
            ELSE [kind |-> "ok"]
        PolicyOf(missingInput, missingParam) ==
            IF missingInput # 0
            THEN Failed(MissingInputError(in.requiredInputs[missingInput]))
            ELSE IF missingParam # 0
            THEN Failed(MissingParamError(in.requiredParams[missingParam]))
            ELSE CreatedCheck(ParamGet(parsed.signatureInputParams, "created"))
    IN  PolicyOf(FirstMissingInput(parsed.signatureInput, in.requiredInputs),
                 FirstMissingParam(parsed.signatureInputParams, in.requiredParams))

\* md5 is allowed as well
WithMd5 == {"sha-256", "sha-512", "md5"}

\* line 361: the algorithms verifySignatureOfRequest computes
allowedDigestAlgorithms == {"sha-256", "sha-512"}

MissingDigestHeaderError ==
    ValidationError(<<Raw("Invalid signature")>>, <<Raw("Missing required header \"content-digest\"")>>)
DigestHeaderParseError ==
    ValidationError(<<Raw("Invalid value for header \"content-digest\"")>>, <<Raw("thrown")>>)
UnsupportedDigestError(algorithms) ==
    LET \* providedDigestAlgorithms.join(', ')
        Message(joined) == <<Raw("Unsupported content-digest algorithm: ")>> \o joined
    IN  ValidationError(
            Message(Join([i \in 1..Len(algorithms) |-> <<Raw(algorithms[i])>>], <<Raw(", ")>>)),
            Message(Join([i \in 1..Len(algorithms) |-> <<Raw(algorithms[i])>>], <<Raw(", ")>>)))
InvalidDigestError(algorithm) ==
    ValidationError(<<Raw("Invalid digest for algorithm "), Raw(algorithm)>>,
                    <<Raw("Invalid digest for algorithm "), Raw(algorithm)>>)
DigestFailedError(algorithm) ==
    ValidationError(<<Raw("Failed to calculate digest for algorithm "), Raw(algorithm)>>, <<Raw("rejection")>>)
\* uint8ArrayToBase64: the bytes rendered as one base64 token
uint8ArrayToBase64(bytes) == Bin(bytes)
DigestMismatchError(algorithm, provided, calculated) ==
    ValidationError(
        <<Raw("Digest mismatch for algorithm "), Raw(algorithm), Raw(". Expected "),
          uint8ArrayToBase64(provided), Raw(", got "), uint8ArrayToBase64(calculated)>>,
        <<Raw("Digest mismatch for algorithm "), Raw(algorithm), Raw(". Expected "),
          uint8ArrayToBase64(provided), Raw(", got "), uint8ArrayToBase64(calculated)>>)

\* line 332: signatureInput.find((item) => item.value === 'content-digest')
SignsContentDigest(signatureInput) ==
    \E i \in 1..Len(signatureInput) : signatureInput[i].value = Str("content-digest")

\* line 371: the first entry, in header order, whose algorithm is allowed
FirstAllowedDigest(dict) ==
    CHOOSE i \in 1..Len(dict) :
        /\ dict[i].key \in allowedDigestAlgorithms
        /\ \A j \in 1..(i - 1) : dict[j].key \notin allowedDigestAlgorithms

\* lines 332-389: the digest stage up to the call of crypto.subtle.digest
VerifyDigestHead(parsed, request) ==
    LET \* lines 379-389: the value of the chosen entry must be a byte sequence
        DigestEntryOf(first) ==
            IF first.item.kind # "bare" \/ first.item.value.k # "bin"
            THEN Failed(InvalidDigestError(first.key))
            ELSE [kind |-> "await", algorithm |-> first.key,
                  providedDigest |-> first.item.value.b]
        \* lines 358-389: the algorithms the header provides against the allowed ones
        DigestOfAlgorithms(dictionaryAsObject, providedDigestAlgorithms) ==
            IF ~\E i \in 1..Len(providedDigestAlgorithms) :
                   providedDigestAlgorithms[i] \in allowedDigestAlgorithms
            THEN Failed(UnsupportedDigestError(providedDigestAlgorithms))
            ELSE DigestEntryOf(dictionaryAsObject[FirstAllowedDigest(dictionaryAsObject)])
        \* lines 345-357: the header value parsed as a dictionary
        DigestOfDictionary(dictionaryOfContentDigest) ==
            IF ~dictionaryOfContentDigest.ok THEN Failed(DigestHeaderParseError)
            ELSE DigestOfAlgorithms(dictionaryOfContentDigest.val,
                                    DictKeys(dictionaryOfContentDigest.val))
        \* lines 334-344: the content-digest header of the request
        DigestOfHeader(headerValueForContentDigest) ==
            IF headerValueForContentDigest.kind = "null" THEN Failed(MissingDigestHeaderError)
            ELSE DigestOfDictionary(decodeDict(headerValueForContentDigest.val))
    IN  IF ~SignsContentDigest(parsed.signatureInput) THEN [kind |-> "skip"]
        ELSE DigestOfHeader(HeadersGet(request.headers, "content-digest"))

\* the platform digest: a collision-free function of the algorithm and the bytes
Digest(algorithm, bytes) ==
    <<IF algorithm = "sha-256" THEN 256 ELSE 512, Len(bytes)>> \o bytes

\* crypto.subtle.digest(algorithm, body || new Uint8Array()): resolves with the
\* digest, or rejects when the body is no buffer
SubtleDigest(algorithm, body) ==
    CASE body.kind = "null" -> ok(Digest(algorithm, <<>>))
      [] body.kind = "bytes" -> ok(Digest(algorithm, body.b))
      [] OTHER -> Rejects("TypeError")

\* the two arrays are as long as each other
SameLength(a, b) == Len(a) = Len(b)

areUint8ArraysEqual(a, b) ==
    LET RECURSIVE BytesEqualFrom(_)
        BytesEqualFrom(i) ==
            IF i > Len(a) THEN TRUE
            ELSE IF a[i] # b[i] THEN FALSE
            ELSE BytesEqualFrom(i + 1)
    IN  IF Len(a) # Len(b) THEN FALSE ELSE BytesEqualFrom(1)

\* lines 396-409: after the digest promise settled
VerifyDigestTail(algorithm, providedDigest, resultOfDigest) ==
    IF resultOfDigest.kind = "reject" THEN Failed(DigestFailedError(algorithm))
    ELSE LET calculatedDigest == resultOfDigest.value
         IN  IF ~areUint8ArraysEqual(providedDigest, calculatedDigest)
             THEN Failed(DigestMismatchError(algorithm, providedDigest, calculatedDigest))
             ELSE [kind |-> "ok"]

\* the switch on item.value of the rebuild loop
VerifyResolve(item, stringOfKey, request) ==
    LET url == request.url
        v == item.value.s
    IN  CASE v = "@method" -> Resolved(stringOfKey, <<Raw(request.method)>>)
          [] v = "@target-uri" -> Resolved(stringOfKey, url.href)
          [] v = "@authority" -> Resolved(stringOfKey, url.hostname)
          [] v = "@scheme" -> Resolved(stringOfKey, SliceDropLast(url.protocol))
          [] v = "@path" -> Resolved(stringOfKey, url.pathname)
          [] v = "@query" -> Resolved(stringOfKey, url.search)
          [] v = "@query-param" ->
                LET name == ParamGet(item.params, "name")
                    value == SearchParamsGet(url.searchParams, name)
                IN  IF Falsy(name) THEN Failed(MissingNameError(stringOfKey))
                    ELSE IF value.kind = "null"
                    THEN Failed(MissingQueryParamError(name, stringOfKey))
                    ELSE Resolved(stringOfKey, value.val)
          [] OTHER ->
                LET value == HeadersGet(request.headers, v)
                IN  IF value.kind = "throw" THEN Thrown
                    ELSE IF value.kind = "null" THEN Failed(MissingHeaderError(v, stringOfKey))
                    ELSE Resolved(stringOfKey, value.val)

\* the for loop over the parsed items: the pairs pushed, or the first failure
RECURSIVE VerifyPairs(_, _, _)
VerifyPairs(items, request, acc) ==
    LET \* one turn of the loop: encode the key, then resolve the value
        VerifyPairKeyed(item, resultOfStringOfKey) ==
            IF ~resultOfStringOfKey.ok THEN Failed(EncodeKeyError)
            ELSE VerifyResolve(item, resultOfStringOfKey.val, request)
        VerifyPair(item) == VerifyPairKeyed(item, encodeItem(item))
        VerifyPairsNext(r) ==
            IF r.kind = "ok" THEN VerifyPairs(Tail(items), request, Append(acc, r)) ELSE r
    IN  IF items = <<>> THEN [kind |-> "ok", pairs |-> acc]
        ELSE VerifyPairsNext(VerifyPair(Head(items)))

\* the text as it is, label and "=" included
WholeText(text) == text

\* line 490: text.split('=').slice(1).join('='): all that follows the first "="
VerifySignatureParamsValue(text) ==
    LET RECURSIVE AfterFirstEquals(_)
        AfterFirstEquals(t) ==
            IF t = <<>> THEN <<>>
            ELSE IF Head(t) = Pn("=") THEN Tail(t)
            ELSE AfterFirstEquals(Tail(t))
    IN  AfterFirstEquals(text)

\* the base rebuilt from the caller's requiredInputs only
RebuildOfRequired(in, parsed) ==
    LET IsRequired(item) ==
            \E j \in 1..Len(in.requiredInputs) : HasRequiredInput(<<item>>, in.requiredInputs[j])
        loop == VerifyPairs(SelectSeq(parsed.signatureInput, IsRequired), in.request, <<>>)
    IN  IF loop.kind # "ok" THEN loop
        ELSE [kind |-> "ok",
              signatureBase |->
                  JoinPairs(Append(loop.pairs,
                      Resolved(SignatureParamsKey,
                          VerifySignatureParamsValue(in.stringOfSignatureInputDictionary))))]

\* lines 413-493: the base rebuilt from the parsed items against the request
VerifyRebuild(in, parsed) ==
    LET \* lines 489-493: the last line of the base and the join of the lines
        VerifyBaseOf(loop) ==
            IF loop.kind # "ok" THEN loop
            ELSE [kind |-> "ok",
                  signatureBase |->
                      JoinPairs(Append(loop.pairs,
                          Resolved(SignatureParamsKey,
                              VerifySignatureParamsValue(in.stringOfSignatureInputDictionary))))]
    IN  VerifyBaseOf(VerifyPairs(parsed.signatureInput, in.request, <<>>))

\* lines 497-501: the rejection of the verify promise, mapped to an error
VerifyRejectedError(error) ==
    ValidationError(<<Raw("Signature verification didn't pass")>>, <<Raw(error)>>)

\* lines 503-510: after the verify() promise settled with `outcome`
VerifyTail(outcome) ==
    IF outcome.kind = "reject" THEN err(VerifyRejectedError(outcome.reason))
    ELSE IF outcome.kind = "err" THEN outcome
    ELSE ok(outcome.value)

(***************************************************************************)
(* Bounds and the inputs the calls are given                               *)
(***************************************************************************)
MaxLen == 2
MaxClock == 4
MaxAge == 1
MaxCreated == 2

RECURSIVE SeqsUpTo(_, _)
SeqsUpTo(S, n) ==
    IF n = 0 THEN {<<>>}
    ELSE LET shorter == SeqsUpTo(S, n - 1)
         IN  shorter \cup {Append(q, x) : q \in {r \in shorter : Len(r) = n - 1}, x \in S}

Simple(name) == [simple |-> TRUE, component |-> name, parameters |-> <<>>]
Parameterized(name, params) == [simple |-> FALSE, component |-> name, parameters |-> params]
QueryParam(name) == Parameterized("@query-param", <<Param("name", Str(name))>>)

Url1 ==
    [href |-> <<Raw("https://example.com:8443/foo?a=1&a=2")>>,
     hostname |-> <<Raw("example.com")>>,
     host |-> <<Raw("example.com"), Pn(":"), Raw("8443")>>,
     protocol |-> <<Raw("https"), Pn(":")>>,
     pathname |-> <<Raw("/foo")>>,
     search |-> <<Raw("?a=1&a=2")>>,
     searchParams |-> << <<"a", <<Raw("1")>> >>, <<"a", <<Raw("2")>> >> >>]
Url2 ==
    [href |-> <<Raw("https://example.com/")>>,
     hostname |-> <<Raw("example.com")>>,
     host |-> <<Raw("example.com")>>,
     protocol |-> <<Raw("https"), Pn(":")>>,
     pathname |-> <<Raw("/")>>,
     search |-> <<>>,
     searchParams |-> <<>>]

Header(name, value) == [name |-> name, value |-> value]
ContentType == Header("content-type", <<Raw("application/json")>>)

NullBody == [kind |-> "null", b |-> <<>>]
BytesBody == [kind |-> "bytes", b |-> <<7, 9>>]

DigestMember(algorithm, bytes) == Member(algorithm, BareItem(Bin(bytes), <<>>))
WrongDigest == <<0, 0, 7, 9>>

\* content-digest header values for a body with the given bytes
DigestHeaderTexts(bytes) ==
    { encodeDict(<<DigestMember("sha-256", Digest("sha-256", bytes))>>).val,
      encodeDict(<<DigestMember("sha-256", WrongDigest)>>).val,
      encodeDict(<<DigestMember("md5", <<1>>), DigestMember("sha-512", Digest("sha-512", bytes))>>).val,
      encodeDict(<<DigestMember("sha-512", Digest("sha-256", bytes)),
                   DigestMember("sha-256", Digest("sha-256", bytes))>>).val,
      encodeDict(<<DigestMember("md5", <<1>>), DigestMember("crc32", <<2>>)>>).val,
      <<Key("md5"), Pn("="), Tk("tok", "d41d8cd98f00b204e9800998ecf8427e", 0, <<>>)>>,
      <<Key("sha-256"), Pn("="), Tk("tok", "incorrectdigest", 0, <<>>)>>,
      <<Raw("%%%")>>,
      <<>> }

Request(method, url, headers, body) ==
    [method |-> method, url |-> url, headers |-> headers, body |-> body]

Requests ==
    {Request("POST", u, h, NullBody) : u \in {Url1, Url2}, h \in {<<ContentType>>, <<>>}}
    \cup
    UNION {{Request("POST", Url1, <<ContentType, Header("content-digest", t)>>, b) :
                t \in DigestHeaderTexts(b.b)} : b \in {NullBody, BytesBody, [kind |-> "other", b |-> <<>>]}}
BaseRequest == Request("POST", Url1, <<ContentType>>, NullBody)

Comp(name) == BareItem(Str(name), <<>>)
QueryParamItem(name, more) ==
    BareItem(Str("@query-param"), <<Param("name", Str(name))>> \o more)

Created(c) == Param("created", Num(c))
KeyId == Param("keyid", Str("k"))
BaseParams == <<Created(1), KeyId>>

SigBytes == <<1, 2, 3>>
EntryText(label, items, params) == encodeDict(<<Member(label, InnerList(items, params))>>).val
BaseInputText == EntryText("sig1", <<Comp("@method")>>, BaseParams)
BaseSignatureText == encodeDict(<<Member("sig1", BareItem(Bin(SigBytes), <<>>))>>).val

\* what the verify callback does: accept, return a failure, reject its promise,
\* or accept exactly the base and bytes of a signer (matching)
Callback(mode) == [mode |-> mode, base |-> <<>>, signature |-> <<>>]
MatchingCallback(base, signature) == [mode |-> "matching", base |-> base, signature |-> signature]

VerifyInput(inputText, signatureText, label, requiredInputs, requiredParams, maxAge, request, verify) ==
    [stringOfSignatureInputDictionary |-> inputText,
     stringOfSignatureDictionary |-> signatureText,
     signatureLabel |-> label,
     requiredInputs |-> requiredInputs,
     requiredParams |-> requiredParams,
     maxAge |-> maxAge,
     request |-> request,
     verify |-> verify]

\* header texts, labels and callbacks vary; the policy inputs are the plain ones
TextInputs ==
    { VerifyInput(t, sg, l, <<>>, <<>>, MaxAge, BaseRequest, Callback(m)) :
        t \in { BaseInputText,
                encodeDict(<<Member("sig0", InnerList(<<Comp("content-type")>>, <<Created(0)>>)),
                             Member("sig1", InnerList(<<Comp("@method")>>, BaseParams))>>).val,
                encodeDict(<<Member("sig1", InnerList(<<Comp("@method")>>, BaseParams)),
                             Member("sig2", InnerList(<<Comp("content-type")>>, BaseParams))>>).val,
                <<Pn(" ")>> \o BaseInputText,
                <<Key("sig1"), Pn("="), Pn("("), Pn(" "), Str("@method"), Pn(" "), Pn(")"),
                  Pn(";"), Key("created"), Pn("="), Num(1)>>,
                EntryText("wronglabel", <<Comp("@method")>>, BaseParams),
                <<Key("invalid-signature-input")>>,
                <<Raw("%%%")>>,
                <<Key("sig1"), Pn("="), Pn("("), Str("@method")>>,
                EntryText("sig1", <<>>, BaseParams),
                EntryText("sig1", <<BareItem(Num(5), <<>>)>>, BaseParams),
                encodeDict(<<Member("sig1", BareItem(Str("@method"), BaseParams))>>).val,
                <<Key("sig1")>> },
        sg \in { BaseSignatureText,
                 encodeDict(<<Member("sig0", BareItem(Bin(<<9>>), <<>>)),
                              Member("sig1", BareItem(Bin(SigBytes), <<>>))>>).val,
                 encodeDict(<<Member("sig2", BareItem(Bin(SigBytes), <<>>))>>).val,
                 encodeDict(<<Member("sig1", BareItem(Str("AQID"), <<>>))>>).val,
                 <<Key("invalid-signature-dictionary")>>,
                 <<Raw("%%%")>> },
        l \in {"sig1", "constructor"}, m \in {"accept", "fail", "reject"} }

\* the required inputs vary against the component lists
RequiredInputsInputs ==
    { VerifyInput(EntryText("sig1", items, BaseParams), BaseSignatureText, "sig1",
                  ri, <<>>, MaxAge, r, Callback("accept")) :
        items \in { <<Comp("@method")>>, <<Comp("@method"), Comp("content-type")>>,
                    <<QueryParamItem("a", <<>>)>>,
                    <<QueryParamItem("a", <<Param("x", Str("y"))>>)>>,
                    <<Comp("@query-param")>>,
                    <<Comp("content-type"), QueryParamItem("a", <<>>)>> },
        ri \in SeqsUpTo({ Simple("@method"), Simple("content-type"), Simple("@query-param"),
                          QueryParam("a"), QueryParam("b"),
                          Parameterized("@query-param", <<>>) }, MaxLen),
        r \in {BaseRequest, Request("POST", Url2, <<>>, NullBody)} }

\* the required parameters vary against the parsed parameters
RequiredParamsInputs ==
    { VerifyInput(EntryText("sig1", <<Comp("@method")>>, ps), BaseSignatureText, "sig1",
                  <<>>, rp, MaxAge, BaseRequest, Callback("accept")) :
        ps \in { <<>>, <<Created(1)>>, <<KeyId>>, <<Created(1), KeyId>>, <<KeyId, Created(1)>>,
                 <<Param("nonce", Str("n")), Created(1)>> },
        rp \in SeqsUpTo({"created", "keyid", "nonce", "constructor"}, MaxLen) }

\* created and maxAge vary against the clock
FreshnessInputs ==
    { VerifyInput(EntryText("sig1", <<Comp("@method")>>, ps), BaseSignatureText, "sig1",
                  <<>>, rp, age, BaseRequest, Callback("accept")) :
        ps \in {<<>>} \cup {<<Created(c)>> : c \in (0..MaxCreated) \cup {-1}}
                      \cup {<<Param("created", v)>> :
                                v \in {Str("not-a-number"), Str(""), TrueVal}},
        rp \in {<<>>, <<"created">>}, age \in 0..MaxAge }

\* the content-digest header and the body vary against lists that sign it
DigestInputs ==
    { VerifyInput(EntryText("sig1", items, BaseParams), BaseSignatureText, "sig1",
                  <<>>, <<>>, MaxAge, r, Callback(m)) :
        items \in { <<Comp("content-digest")>>, <<Comp("@method"), Comp("content-digest")>>,
                    <<Comp("content-digest"), Comp("x-missing")>>,
                    <<Comp("Content-Digest")>>, <<Comp("content-type")>> },
        r \in Requests, m \in {"accept", "fail", "reject"} }

\* the components vary against requests with and without a port, a query and
\* headers: header names in either case, names that are no header name,
\* derived components, and @query-param with and without a usable name
ResolveInputs ==
    { VerifyInput(EntryText("sig1", items, BaseParams), BaseSignatureText, "sig1",
                  <<>>, <<>>, MaxAge, r, Callback(m)) :
        items \in { <<Comp("content-type")>>, <<Comp("Content-Type")>>, <<Comp("x-missing")>>,
                    <<Comp("@method"), Comp("x-missing")>>,
                    <<BareItem(Str("content-type"), <<Param("x", Str("y"))>>)>>,
                    <<Comp("@status")>>, <<Comp("")>>,
                    <<Comp("@authority")>>,
                    <<Comp("@target-uri"), Comp("@scheme"), Comp("@path"), Comp("@query")>>,
                    <<QueryParamItem("a", <<>>)>>, <<QueryParamItem("zz", <<>>)>>,
                    <<QueryParamItem("", <<>>)>>, <<Comp("@query-param")>>,
                    <<BareItem(Str("@query-param"), <<Param("name", TrueVal)>>)>>,
                    <<QueryParamItem("a", <<>>), Comp("x-missing")>> },
        r \in {BaseRequest, Request("POST", Url2, <<>>, NullBody)},
        m \in {"accept", "reject"} }

\* inputs that fail several stages at once: a signature that is no byte
\* sequence, required inputs and parameters that are not signed, a created
\* that is missing, no number or too old, a digest that is missing or wrong,
\* a signed header the request lacks, a callback that fails
StageInputs ==
    { VerifyInput(EntryText("sig1", items, ps), sg, "sig1", ri, rp, 0, r, Callback("fail")) :
        items \in { <<Comp("@method")>>, <<Comp("x-missing")>>,
                    <<Comp("x-missing"), Comp("content-digest")>> },
        ps \in { <<>>, <<Param("created", Str("not-a-number"))>>, <<Created(0)>>, <<Created(1)>>,
                 <<Created(1), Param("nonce", Str("n"))>> },
        sg \in { BaseSignatureText,
                 encodeDict(<<Member("sig1", BareItem(Str("AQID"), <<>>))>>).val },
        ri \in { <<>>, <<Simple("@path")>> },
        rp \in { <<>>, <<"nonce">> },
        r \in { BaseRequest,
                Request("POST", Url1,
                        <<ContentType,
                          Header("content-digest",
                                 encodeDict(<<DigestMember("sha-256", WrongDigest)>>).val)>>,
                        BytesBody) } }

\* the verifier's calls during which a signer is set to work
ConcurrentVerifyInputs ==
    { in \in DigestInputs :
        /\ in.request.body = BytesBody
        /\ in.stringOfSignatureInputDictionary =
              EntryText("sig1", <<Comp("@method"), Comp("content-digest")>>, BaseParams) }

VerifyInputs ==
    TextInputs \cup RequiredInputsInputs \cup RequiredParamsInputs
               \cup FreshnessInputs \cup DigestInputs \cup ResolveInputs \cup StageInputs

\* what the sign callback does: return bytes, return a failure, reject
Signer(mode) == [mode |-> mode, value |-> [t |-> "bytes", b |-> SigBytes, n |-> 0]]

SignInput(inputs, label, params, request, sign) ==
    [signatureInputs |-> inputs, signatureLabel |-> label, additionalParams |-> params,
     request |-> request, sign |-> sign]

\* lists of simple, derived and parameterized components, parameters and signers
SignInputs ==
    LET DigestRequest(bytes) ==
            Request("POST", Url1,
                    <<ContentType,
                      Header("content-digest",
                             encodeDict(<<DigestMember("sha-256", bytes)>>).val)>>,
                    BytesBody)
    IN
    { SignInput(l, "sig1", ps, r, Signer("bytes")) :
        l \in SeqsUpTo({ Simple("@method"), Simple("content-type"), Simple("content-digest"),
                         QueryParam("a"), Simple("x-missing") }, MaxLen)
              \cup { << Simple("@method"), Simple("@target-uri"), Simple("@authority"),
                        Simple("@scheme"), Simple("@path"), Simple("@query"),
                        QueryParam("a") >>,
                     <<QueryParam("")>>, <<QueryParam("zz")>>,
                     <<Simple("@query-param")>>, <<Simple("@status")>>, <<Simple("")>>,
                     <<Simple("Content-Type")>>, <<Simple("@authority"), Simple("x-missing")>>,
                     <<Simple("x-caf\\u00e9")>>,
                     <<Parameterized("content-type", <<Param("x", Str("y"))>>)>> },
        ps \in { <<>>, <<Created(1), KeyId>>, <<KeyId, Created(0)>>, <<Created(2)>>,
                 <<Param("created", Str("not-a-number"))>> },
        r \in { BaseRequest, DigestRequest(Digest("sha-256", BytesBody.b)),
                DigestRequest(WrongDigest) } }
    \cup
    { SignInput(<<Simple("@method")>>, l, BaseParams, BaseRequest, Signer(m)) :
        l \in {"sig1", "Sig=Bad"}, m \in {"bytes", "fail", "reject"} }

\* what a signer is given while a verifier is at work on another request
ConcurrentSignInputs ==
    { SignInput(<<Simple("@method"), Simple("@path")>>, "sig1", BaseParams,
                Request("GET", Url2, <<>>, NullBody), Signer(m)) : m \in {"bytes", "reject"} }

(***************************************************************************)
(* The state machine                                                       *)
(***************************************************************************)
VARIABLES
    now,          \* Date.now(), in milliseconds
    sPc,          \* createSignatureForRequest: "idle", "awaitSign", "done"
    sIn,          \* its arguments
    sLoc,         \* its locals across the await
    sResult,      \* what its promise settled with
    signCalls,    \* how often this call invoked the sign callback
    sPrev,        \* the locals and the result of the call before this one
    vPc,          \* verifySignatureOfRequest: "idle", "awaitDigest", "awaitVerify", "done"
    vIn,          \* its arguments
    vLoc,         \* its locals across the awaits
    vResult,      \* what its promise settled with
    vCalledAt,    \* the clock when it was called
    digestCalls,  \* how often this call invoked crypto.subtle.digest
    verifyCalls,  \* how often this call invoked the verify callback
    vCallCtx,     \* what the verify callback was given
    vPrev         \* the callback's arguments and the result of the call before this one

vars == <<now, sPc, sIn, sLoc, sResult, signCalls, sPrev,
          vPc, vIn, vLoc, vResult, vCalledAt, digestCalls, verifyCalls, vCallCtx, vPrev>>
signVars == <<sPc, sIn, sLoc, sResult, signCalls, sPrev>>
verifyVars == <<vPc, vIn, vLoc, vResult, vCalledAt, digestCalls, verifyCalls, vCallCtx, vPrev>>

None == [kind |-> "none"]

Init ==
    /\ now \in {500 * k : k \in 0..MaxClock}
    /\ sPc = "idle" /\ sIn = None /\ sLoc = None /\ sResult = NoResult /\ signCalls = 0
    /\ sPrev = None
    /\ vPc = "idle" /\ vIn = None /\ vLoc = None /\ vResult = NoResult /\ vCalledAt = 0
    /\ digestCalls = 0 /\ verifyCalls = 0 /\ vCallCtx = None /\ vPrev = None

\* the clock advances while a call is suspended, and between a signature's
\* creation and its verification
Tick ==
    /\ now < 500 * MaxClock
    /\ \/ sPc = "awaitSign"
       \/ vPc \in {"awaitDigest", "awaitVerify"}
       \/ sPc = "done" /\ vPc = "idle"
    /\ now' = now + 500
    /\ UNCHANGED <<signVars, verifyVars>>

\* the call keeps a base that ends with the reading of the clock
SignApplyStamped(in, head) ==
    /\ sIn' = in
    /\ sPc' = IF head.kind = "return" THEN "done" ELSE "awaitSign"
    /\ sResult' = IF head.kind = "return" THEN head.result ELSE NoResult
    /\ sLoc' = IF head.kind = "return" THEN None
               ELSE [signatureInput |-> head.signatureInput,
                     signatureBase |-> head.signatureBase \o <<Num(now)>>]
    /\ signCalls' = IF head.kind = "return" THEN 0 ELSE 1

\* createSignatureForRequest is called: it runs to its first await or returns
SignApply(in, head) ==
    /\ sIn' = in
    /\ IF head.kind = "return"
       THEN /\ sPc' = "done" /\ sResult' = head.result
            /\ sLoc' = None /\ signCalls' = 0
       ELSE /\ sPc' = "awaitSign" /\ sResult' = NoResult
            /\ sLoc' = [signatureInput |-> head.signatureInput,
                        signatureBase |-> head.signatureBase]
            /\ signCalls' = 1

SignCall ==
    /\ sPc = "idle" /\ vPc = "idle"
    /\ \E in \in SignInputs : SignApply(in, SignHead(in))
    /\ UNCHANGED <<now, sPrev, verifyVars>>

\* createSignatureForRequest is called once more with the arguments of the
\* call that has returned
SignRepeat ==
    /\ sPc = "done" /\ vPc = "idle" /\ sPrev = None
    /\ sPrev' = [loc |-> sLoc, result |-> sResult]
    /\ SignApply(sIn, SignHead(sIn))
    /\ UNCHANGED <<now, verifyVars>>

\* the promise of the sign callback, as the caller's function settles it
\* createSignatureForRequest is called, on a request of its own, while a
\* verifySignatureOfRequest call is suspended at one of its awaits
SignDuringVerify ==
    /\ sPc = "idle" /\ vPc \in {"awaitDigest", "awaitVerify"}
    /\ vIn \in ConcurrentVerifyInputs
    /\ \E in \in ConcurrentSignInputs : SignApply(in, SignHead(in))
    /\ UNCHANGED <<now, sPrev, verifyVars>>

SignOutcome(sign) ==
    CASE sign.mode = "bytes" -> ok(sign.value)
      [] sign.mode = "fail" ->
            err(Error("signing", <<Raw("Signing failed")>>, <<>>))
      [] OTHER -> Rejects("Error")

\* the sign promise settles and createSignatureForRequest runs to its end
SignSettle ==
    /\ sPc = "awaitSign"
    /\ sPc' = "done"
    /\ sResult' = SignTail(sIn, sLoc, SignOutcome(sIn.sign))
    /\ UNCHANGED <<now, sIn, sLoc, signCalls, sPrev, verifyVars>>

\* where a call of verifySignatureOfRequest stands after a run of its code:
\* its position, its result if it returned, its locals, the calls it made
Step(pc, result, loc, digest, verify, ctx) ==
    [pc |-> pc, result |-> result, loc |-> loc, digest |-> digest, verify |-> verify, ctx |-> ctx]
Returned(result) == Step("done", result, None, 0, 0, None)
Loc(parsed, nowMs, algorithm, providedDigest) ==
    [parsed |-> parsed, nowInSeconds |-> nowMs, algorithm |-> algorithm,
     providedDigest |-> providedDigest]

\* lines 413-501: the base is rebuilt; the call returns, or it invokes the
\* verify callback with the base, the parameters and the signature
AfterRebuild(loc, rebuilt) ==
    IF rebuilt.kind = "err" THEN Step("done", err(rebuilt.error), loc, 0, 0, None)
    ELSE IF rebuilt.kind = "throw" THEN Step("done", Rejects("TypeError"), loc, 0, 0, None)
    ELSE Step("awaitVerify", NoResult, loc, 0, 1,
              [signatureBase |-> rebuilt.signatureBase,
               params |-> loc.parsed.signatureInputParams,
               signature |-> loc.parsed.providedSignature])

AfterDigest(in, loc) == AfterRebuild(loc, VerifyRebuild(in, loc.parsed))

\* lines 332-395: the digest stage returns, awaits the digest, or is skipped
AfterDigestHead(in, parsed, nowMs, digest) ==
    IF digest.kind = "err" THEN Returned(err(digest.error))
    ELSE IF digest.kind = "await"
    THEN Step("awaitDigest", NoResult,
              Loc(parsed, nowMs, digest.algorithm, digest.providedDigest), 1, 0, None)
    ELSE AfterDigest(in, Loc(parsed, nowMs, "", <<>>))

\* on to the digest stage whatever the policy checks came to
PolicyIgnored(in, parsed, nowMs, policy) ==
    AfterDigestHead(in, parsed, nowMs, VerifyDigestHead(parsed, in.request))

AfterPolicy(in, parsed, nowMs, policy) ==
    IF policy.kind = "err" THEN Returned(err(policy.error))
    ELSE AfterDigestHead(in, parsed, nowMs, VerifyDigestHead(parsed, in.request))

AfterParse(in, nowMs, parsed) ==
    IF parsed.kind = "err" THEN Returned(err(parsed.error))
    ELSE AfterPolicy(in, parsed, nowMs, VerifyPolicy(in, parsed, nowMs))

\* lines 205-501: from the call to the first await or return
VerifyHead(in, nowMs) == AfterParse(in, nowMs, VerifyParse(in))

\* lines 396-501: from the settled digest promise to the next await or return
\* the request read after the await is the one the signer in flight was given
AfterDigestTailOfLatestRequest(in, loc, tail) ==
    IF tail.kind = "err" THEN Step("done", err(tail.error), loc, 0, 0, None)
    ELSE AfterDigest(IF sPc = "awaitSign" THEN [in EXCEPT !.request = sIn.request] ELSE in, loc)

AfterDigestTail(in, loc, tail) ==
    IF tail.kind = "err" THEN Step("done", err(tail.error), loc, 0, 0, None)
    ELSE AfterDigest(in, loc)

\* the call moves on by `step`, having made `digests` and `verifies` calls so far
VerifyApply(in, step, digests, verifies, ctx) ==
    /\ vIn' = in
    /\ vPc' = step.pc
    /\ vResult' = step.result
    /\ vLoc' = step.loc
    /\ digestCalls' = digests + step.digest
    /\ verifyCalls' = verifies + step.verify
    /\ vCallCtx' = IF step.verify = 1 THEN step.ctx ELSE ctx

\* verifySignatureOfRequest is called with `in`: it runs to its first await or returns
VerifyStart(in) ==
    /\ vCalledAt' = now
    /\ VerifyApply(in, VerifyHead(in, now), 0, 0, None)

\* a verifier is handed header texts from the wire
VerifyCall ==
    /\ vPc = "idle" /\ sPc = "idle"
    /\ \E in \in VerifyInputs : VerifyStart(in)
    /\ UNCHANGED <<now, signVars, vPrev>>

\* a verifier is handed what createSignatureForRequest returned, for the same
\* request, and requires what was signed: the inputs, and the keys of
\* additionalParams in order
VerifyRoundTrip ==
    /\ vPc = "idle" /\ sPc = "done" /\ sResult.kind = "ok"
    /\ \E age \in 0..MaxAge :
        VerifyStart(VerifyInput(sResult.value.signatureInput, sResult.value.signature,
                                sIn.signatureLabel, sIn.signatureInputs,
                                [i \in 1..Len(sIn.additionalParams) |->
                                    sIn.additionalParams[i].key],
                                age, sIn.request,
                                MatchingCallback(sResult.value.signatureBase,
                                                 ToUint8Array(sIn.sign.value).val)))
    /\ UNCHANGED <<now, signVars, vPrev>>

\* verifySignatureOfRequest is called once more with the arguments of the
\* call that has returned
VerifyRepeat ==
    /\ vPc = "done" /\ vPrev = None
    /\ vPrev' = [in |-> vIn, calledAt |-> vCalledAt, ctx |-> vCallCtx, verifyCalls |-> verifyCalls, result |-> vResult]
    /\ VerifyStart(vIn)
    /\ UNCHANGED <<now, signVars>>

\* verifySignatureOfRequest is called once more with the header texts, label,
\* maxAge, request and callback of the call that has returned, and with other
\* requiredInputs and requiredParams
VerifyRequiring ==
    /\ vPc = "done" /\ vPrev = None
    /\ vPrev' = [in |-> vIn, calledAt |-> vCalledAt, ctx |-> vCallCtx, verifyCalls |-> verifyCalls, result |-> vResult]
    /\ \E ri \in {<<>>, <<Simple("@method")>>}, rp \in {<<>>, <<"created">>} :
          /\ <<ri, rp>> # <<vIn.requiredInputs, vIn.requiredParams>>
          /\ VerifyStart([vIn EXCEPT !.requiredInputs = ri, !.requiredParams = rp])
    /\ UNCHANGED <<now, signVars>>

\* the digest promise settles and the call runs on to the verify callback
DigestSettle ==
    /\ vPc = "awaitDigest"
    /\ VerifyApply(vIn,
                   AfterDigestTail(vIn, vLoc,
                       VerifyDigestTail(vLoc.algorithm, vLoc.providedDigest,
                                        SubtleDigest(vLoc.algorithm, vIn.request.body))),
                   digestCalls, verifyCalls, vCallCtx)
    /\ UNCHANGED <<now, signVars, vCalledAt, vPrev>>

\* the promise of the verify callback, as the caller's function settles it
VerifyOutcome(verify, ctx) ==
    CASE verify.mode = "accept" -> ok(TRUE)
      [] verify.mode = "fail" ->
            err(Error("verification", <<Raw("Signature mismatch")>>, <<>>))
      [] verify.mode = "matching" ->
            IF ctx.signatureBase = verify.base /\ ctx.signature = verify.signature
            THEN ok(TRUE)
            ELSE err(Error("verification", <<Raw("Signature mismatch")>>, <<>>))
      [] OTHER -> Rejects("Error")

\* the verify promise settles and verifySignatureOfRequest runs to its end
VerifySettle ==
    /\ vPc = "awaitVerify"
    /\ vPc' = "done"
    /\ vResult' = VerifyTail(VerifyOutcome(vIn.verify, vCallCtx))
    /\ UNCHANGED <<now, signVars, vIn, vLoc, vCalledAt, digestCalls, verifyCalls, vCallCtx, vPrev>>

Next ==
    \/ Tick
    \/ SignCall
    \/ SignRepeat
    \/ SignDuringVerify
    \/ SignSettle
    \/ VerifyCall
    \/ VerifyRoundTrip
    \/ VerifyRepeat
    \/ VerifyRequiring
    \/ DigestSettle
    \/ VerifySettle

Spec == Init /\ [][Next]_vars

(***************************************************************************)
(* Properties                                                              *)
(***************************************************************************)
supportedAlgorithms == {"sha-256", "sha-512"}

\* the identifier list names the component
Lists(identifiers, component) ==
    \E i \in 1..Len(identifiers) : identifiers[i].component = component

\* the parsed items name the component
Signs(items, component) == \E i \in 1..Len(items) : items[i].value = Str(component)

\* the request's content-digest header parses as a dictionary whose first
\* sha-256 or sha-512 entry, in header order, holds the digest of the body,
\* the empty byte string when the body is absent
DeclaresDigestOfBody(request) ==
    /\ \E i \in 1..Len(request.headers) : request.headers[i].name = "content-digest"
    /\ request.body.kind \in {"null", "bytes"}
    /\ LET header == CHOOSE h \in {request.headers[i] : i \in 1..Len(request.headers)} :
                         h.name = "content-digest"
           parsed == decodeDict(header.value)
       IN  /\ parsed.ok
           /\ \E i \in 1..Len(parsed.val) :
                /\ parsed.val[i].key \in supportedAlgorithms
                /\ \A j \in 1..(i - 1) : parsed.val[j].key \notin supportedAlgorithms
                /\ parsed.val[i].item.kind = "bare"
                /\ parsed.val[i].item.value = Bin(Digest(parsed.val[i].key, request.body.b))

\* the parameters hold a created that is a number other than zero and, read
\* against the clock `at` (milliseconds), is no older than maxAge seconds
CreatedIsFresh(params, at, maxAge) ==
    \E i \in 1..Len(params) :
        /\ params[i].key = "created"
        /\ params[i].value.k = "int"
        /\ params[i].value.n # 0
        /\ at - params[i].value.n * 1000 <= maxAge * 1000

\* verifySignatureOfRequest was handed what createSignatureForRequest returned
IsRoundTrip == vPc # "idle" /\ vIn.verify.mode = "matching"

\* C1 as stated: whenever createSignatureForRequest succeeded for R, L, P and
\* the label, verifySignatureOfRequest, given the returned signatureInput and
\* signature, the label, requiredInputs = L, requiredParams = keys(P), any
\* maxAge >= 0, R and a callback accepting the signer's output, succeeds.
RoundTripSucceeds ==
    (IsRoundTrip /\ vPc = "done") => vResult.kind = "ok"

\* C1: the round trip succeeds when L is not empty, P holds a created that is
\* a non-zero number no older than maxAge at the verifier's clock reading,
\* and, if L names content-digest, the request's content-digest header
\* declares the digest of its body under its first supported algorithm.
RoundTripOfFreshBoundSignature ==
    (/\ IsRoundTrip /\ vPc = "done"
     /\ vIn.requiredInputs = sIn.signatureInputs
     /\ vIn.requiredParams = [i \in 1..Len(sIn.additionalParams) |-> sIn.additionalParams[i].key]
     /\ vIn.requiredInputs # <<>>
     /\ CreatedIsFresh(sIn.additionalParams, vCalledAt, vIn.maxAge)
     /\ (Lists(vIn.requiredInputs, "content-digest") => DeclaresDigestOfBody(vIn.request)))
    => vResult.kind = "ok"

RoundTripReached ==
    /\ IsRoundTrip /\ vPc = "done"
    /\ Lists(vIn.requiredInputs, "content-digest") /\ Len(vIn.requiredInputs) = 2
    /\ CreatedIsFresh(sIn.additionalParams, vCalledAt, vIn.maxAge)
    /\ vCalledAt = 1000 * sIn.additionalParams[1].value.n + 1000 * vIn.maxAge
    /\ digestCalls = 1 /\ verifyCalls = 1
    /\ vResult.kind = "ok"

\* the identifier a signer passes for a parsed item: a string, or a component
\* with its parameters
IdentifierOf(item) ==
    IF item.params = <<>> THEN Simple(item.value.s)
    ELSE Parameterized(item.value.s, item.params)

\* createSignatureForRequest, up to its await, for the parsed list and the
\* parsed parameters of the entry under the label against the same request
SignerHeadFor(in, parsed) ==
    SignHead(SignInput([i \in 1..Len(parsed.signatureInput) |->
                            IdentifierOf(parsed.signatureInput[i])],
                       in.signatureLabel, parsed.signatureInputParams, in.request,
                       Signer("bytes")))

\* C2 as stated: the signatureBase handed to the verify callback is
\* byte-identical to the signatureBase createSignatureForRequest produces for
\* the parsed component list and parsed parameters of the entry under the
\* label against the same request, whatever else the header text holds.
RebuiltBaseIsSignersBase ==
    vPc = "awaitVerify" =>
        /\ SignerHeadFor(vIn, vLoc.parsed).kind = "await"
        /\ vCallCtx.signatureBase = SignerHeadFor(vIn, vLoc.parsed).signatureBase

\* the digest stage of a call with arguments `in` succeeds: content-digest is
\* not signed, or the header's digest is the digest of the body
DigestStagePassed(in, parsed) ==
    LET digest == VerifyDigestHead(parsed, in.request)
    IN  \/ digest.kind = "skip"
        \/ /\ digest.kind = "await"
           /\ VerifyDigestTail(digest.algorithm, digest.providedDigest,
                               SubtleDigest(digest.algorithm, in.request.body)).kind = "ok"

\* parse, label lookup and shape check; required inputs, required params and
\* freshness; digest binding; the rebuild of the base: all succeed for a call
\* with arguments `in` that read the clock `at`
StagesPassed(in, at) ==
    LET parsed == VerifyParse(in)
    IN  /\ parsed.kind = "ok"
        /\ VerifyPolicy(in, parsed, at).kind = "ok"
        /\ DigestStagePassed(in, parsed)
        /\ VerifyRebuild(in, parsed).kind = "ok"

\* C3: a call of verifySignatureOfRequest invokes the verify callback at most
\* once, and only after every stage before it has succeeded (the digest
\* primitive having run when content-digest is signed); the call returns
\* success only if the callback was invoked and resolved to a success.
CallbackOnceAfterAllStages ==
    /\ verifyCalls <= 1
    /\ verifyCalls = 1 =>
          /\ StagesPassed(vIn, vCalledAt)
          /\ Signs(VerifyParse(vIn).signatureInput, "content-digest") => digestCalls = 1
    /\ (vPc = "done" /\ vResult.kind = "ok") =>
          /\ verifyCalls = 1
          /\ VerifyOutcome(vIn.verify, vCallCtx).kind = "ok"

CallbackAcceptedAfterDigest ==
    /\ vPc = "done" /\ vResult.kind = "ok"
    /\ vIn.verify.mode = "accept"
    /\ verifyCalls = 1 /\ digestCalls = 1

RECURSIVE SplitLines(_, _, _)
SplitLines(text, i, line) ==
    IF i > Len(text) THEN <<line>>
    ELSE IF text[i] = Pn("\n") THEN <<line>> \o SplitLines(text, i + 1, <<>>)
    ELSE SplitLines(text, i + 1, Append(line, text[i]))

\* the text with its leading label and "=" removed
WithoutLabel(text, label) ==
    IF Len(text) >= 2 /\ text[1] = Key(label) /\ text[2] = Pn("=")
    THEN SubSeq(text, 3, Len(text))
    ELSE text

\* C5: when createSignatureForRequest succeeds for a list L of n identifiers,
\* the signatureBase it returns is n+1 lines joined by single newlines with no
\* trailing newline; line i is the serialized key of L[i], ": " and the
\* resolved value of L[i], in list order; the last line is the key
\* "@signature-params", ": " and the returned signatureInput without its
\* leading "label=".
BaseIsLinesThenSignatureParams ==
    (sPc = "done" /\ sResult.kind = "ok") =>
        LET L == sIn.signatureInputs
            lines == SplitLines(sResult.value.signatureBase, 1, <<>>)
        IN  /\ Len(lines) = Len(L) + 1
            /\ \A i \in 1..Len(L) :
                  /\ SignPair(L[i], sIn.request).kind = "ok"
                  /\ lines[i] = SignPair(L[i], sIn.request).key \o <<Pn(": ")>>
                                    \o SignPair(L[i], sIn.request).value
            /\ lines[Len(L) + 1] =
                  <<Str("@signature-params"), Pn(": ")>>
                      \o WithoutLabel(sResult.value.signatureInput, sIn.signatureLabel)

BaseOfSevenComponents ==
    /\ sPc = "done" /\ sResult.kind = "ok"
    /\ Len(sIn.signatureInputs) = 7
    /\ sIn.additionalParams # <<>>

\* the call in progress got past parse, required inputs and required params
ReachedFreshness ==
    /\ vPc # "idle"
    /\ VerifyParse(vIn).kind = "ok"
    /\ FirstMissingInput(VerifyParse(vIn).signatureInput, vIn.requiredInputs) = 0
    /\ FirstMissingParam(VerifyParse(vIn).signatureInputParams, vIn.requiredParams) = 0

\* the call in progress returned an error of the freshness stage
FailedFreshness ==
    /\ vPc = "done" /\ vResult.kind = "err"
    /\ vResult.error \in {MissingParamError("created"), InvalidCreatedError, ExpiredError}

\* C6 as stated: with created a numeric parameter and now the clock reading of
\* the call, the freshness stage fails with the validation error 'Signature
\* expired' if and only if now - created > maxAge; an age equal to maxAge, and
\* every smaller age, passes the stage.
ExpiredExactlyWhenOlderThanMaxAge ==
    (/\ ReachedFreshness
     /\ ParamGet(VerifyParse(vIn).signatureInputParams, "created").k = "int") =>
        LET created == ParamGet(VerifyParse(vIn).signatureInputParams, "created").n
            older == vCalledAt - created * 1000 > vIn.maxAge * 1000
        IN  /\ older <=> (vPc = "done" /\ vResult = err(ExpiredError))
            /\ ~older => ~FailedFreshness

\* the call in progress got past the freshness stage with content-digest
\* among the parsed components
ReachedDigestBinding ==
    /\ ReachedFreshness
    /\ VerifyPolicy(vIn, VerifyParse(vIn), vCalledAt).kind = "ok"
    /\ Signs(VerifyParse(vIn).signatureInput, "content-digest")

\* C7: when the parsed component list contains content-digest, the verify
\* callback is reached only if the request carries a content-digest header
\* whose first sha-256 or sha-512 entry, in header order, declares bytes equal
\* to the digest of the body under that algorithm (of the empty byte string
\* when the body is absent); with the header missing, the declared value not
\* a byte sequence, or a mismatch, the call returns a validation error.
CallbackOnlyForDeclaredBodyDigest ==
    /\ (ReachedDigestBinding /\ verifyCalls = 1) => DeclaresDigestOfBody(vIn.request)
    /\ (ReachedDigestBinding /\ vPc = "done" /\ ~DeclaresDigestOfBody(vIn.request)) =>
          /\ vResult.kind = "err"
          /\ vResult.error.type = "validation"
          /\ verifyCalls = 0

SecondEntryBoundBody ==
    /\ ReachedDigestBinding /\ vPc = "done" /\ vResult.kind = "ok"
    /\ verifyCalls = 1 /\ digestCalls = 1
    /\ vIn.request.body.kind = "bytes"
    /\ vLoc.algorithm = "sha-512"

\* the value of the request's content-digest header, parsed
DigestHeaderOf(request) ==
    decodeDict((CHOOSE h \in {request.headers[i] : i \in 1..Len(request.headers)} :
                    h.name = "content-digest").value)

\* the keys of the dictionary from the i-th on, separated by ", "
RECURSIVE CommaSeparated(_, _)
CommaSeparated(dict, i) ==
    IF i > Len(dict) THEN <<>>
    ELSE (IF i = 1 THEN <<>> ELSE <<Raw(", ")>>) \o <<Raw(dict[i].key)>>
             \o CommaSeparated(dict, i + 1)

\* the content-digest header parses as a dictionary that holds neither sha-256
\* nor sha-512
DeclaresNoSupportedAlgorithm(request) ==
    /\ \E i \in 1..Len(request.headers) : request.headers[i].name = "content-digest"
    /\ DigestHeaderOf(request).ok
    /\ \A i \in 1..Len(DigestHeaderOf(request).val) :
          DigestHeaderOf(request).val[i].key \notin supportedAlgorithms

\* C8: when content-digest is in the parsed component list and the dictionary
\* of the content-digest header holds neither sha-256 nor sha-512, the call
\* returns a validation error whose message is 'Unsupported content-digest
\* algorithm: ' followed by the algorithms present, separated by ', ', and it
\* invokes neither the digest primitive nor the verify callback.
UnsupportedAlgorithmsAreNamed ==
    (ReachedDigestBinding /\ DeclaresNoSupportedAlgorithm(vIn.request)) =>
        /\ vPc = "done"
        /\ vResult.kind = "err"
        /\ vResult.error.type = "validation"
        /\ vResult.error.message =
              <<Raw("Unsupported content-digest algorithm: ")>>
                  \o CommaSeparated(DigestHeaderOf(vIn.request).val, 1)
        /\ digestCalls = 0
        /\ verifyCalls = 0

TwoUnsupportedAlgorithms ==
    /\ ReachedDigestBinding /\ DeclaresNoSupportedAlgorithm(vIn.request)
    /\ Len(DigestHeaderOf(vIn.request).val) = 2
    /\ vPc = "done"

\* the key/value pairs of a parameter list, as a set
PairsOf(params) == {<<params[i].key, params[i].value>> : i \in 1..Len(params)}

\* a string identifier matches an entry of the same name; a parameterized
\* identifier matches an entry of the same name with the same parameter set
ExactlyMatches(item, identifier) ==
    /\ item.value = Str(identifier.component)
    /\ ~identifier.simple => PairsOf(item.params) = PairsOf(identifier.parameters)

\* the call in progress returned the error of the required-inputs stage
FailedRequiredInputs ==
    /\ vPc = "done" /\ vResult.kind = "err"
    /\ vResult.error.type = "validation"
    /\ \E i \in 1..Len(vIn.requiredInputs) :
          vResult.error = MissingInputError(vIn.requiredInputs[i])

\* C9 as stated: the call passes the required-inputs stage if and only if
\* every identifier of requiredInputs has a matching entry in the parsed
\* component list, a parameterized identifier matching only an entry with the
\* same name and exactly the same parameters, none missing and none extra;
\* otherwise it returns a validation error.
RequiredInputsMatchExactly ==
    (vPc # "idle" /\ VerifyParse(vIn).kind = "ok") =>
        (~FailedRequiredInputs <=>
            \A i \in 1..Len(vIn.requiredInputs) :
                \E j \in 1..Len(VerifyParse(vIn).signatureInput) :
                    ExactlyMatches(VerifyParse(vIn).signatureInput[j], vIn.requiredInputs[i]))

\* the names of requiredParams that are no key of the parsed parameters
MissingRequiredParams ==
    {vIn.requiredParams[i] : i \in 1..Len(vIn.requiredParams)}
        \ {VerifyParse(vIn).signatureInputParams[i].key :
              i \in 1..Len(VerifyParse(vIn).signatureInputParams)}

\* C10 as stated: the call proceeds past the required-params stage only if
\* every name of requiredParams is a key of the parameters parsed from the
\* entry under the label; otherwise it returns a validation error whose
\* context names the missing parameter, and the verify callback is not invoked.
RequiredParamsAreKeys ==
    (/\ vPc # "idle"
     /\ VerifyParse(vIn).kind = "ok"
     /\ FirstMissingInput(VerifyParse(vIn).signatureInput, vIn.requiredInputs) = 0
     /\ MissingRequiredParams # {}) =>
        /\ vPc = "done"
        /\ vResult.kind = "err"
        /\ vResult.error.type = "validation"
        /\ \E name \in MissingRequiredParams : vResult.error = MissingParamError(name)
        /\ verifyCalls = 0

\* requiredParams without the name "created"
OmittingCreated(requiredParams) == SelectSeq(requiredParams, LAMBDA name : name # "created")

\* the call in progress has finished, its parsed parameters hold no created,
\* its requiredParams name created, and leaving that name out lets the same
\* call pass the required-params stage
MissingCreatedWasRequired ==
    /\ vPc = "done"
    /\ VerifyParse(vIn).kind = "ok"
    /\ FirstMissingInput(VerifyParse(vIn).signatureInput, vIn.requiredInputs) = 0
    /\ \A i \in 1..Len(VerifyParse(vIn).signatureInputParams) :
          VerifyParse(vIn).signatureInputParams[i].key # "created"
    /\ \E i \in 1..Len(vIn.requiredParams) : vIn.requiredParams[i] = "created"
    /\ FirstMissingParam(VerifyParse(vIn).signatureInputParams,
                         OmittingCreated(vIn.requiredParams)) = 0

\* C11 as stated: when the parsed signature input has no created parameter,
\* the error returned when requiredParams includes 'created' differs, in its
\* type, message or context, from the error the same call returns when
\* requiredParams omits 'created'.
MissingCreatedErrorsDiffer ==
    MissingCreatedWasRequired =>
        vResult # err(VerifyPolicy([vIn EXCEPT !.requiredParams = OmittingCreated(@)],
                                   VerifyParse(vIn), vCalledAt).error)

\* the derived components the resolver knows; every other identifier is a header name
reservedComponents ==
    {"@method", "@target-uri", "@authority", "@scheme", "@path", "@query", "@query-param"}

\* the values of the request's headers of that name, compared without case
HeaderValues(request, name) ==
    {request.headers[i].value : i \in {j \in 1..Len(request.headers) :
                                          Lower(request.headers[j].name) = Lower(name)}}

\* the text ends with the suffix
EndsWith(text, suffix) ==
    /\ Len(text) >= Len(suffix)
    /\ SubSeq(text, Len(text) - Len(suffix) + 1, Len(text)) = suffix

\* the error is the validation error 'Missing header: <name>' with the
\* serialized key in its context
IsMissingHeaderError(result, name, key) ==
    /\ result.kind = "err"
    /\ result.error.type = "validation"
    /\ result.error.message = <<Raw("Missing header: "), Raw(name)>>
    /\ EndsWith(result.error.context, key)

\* the i-th item is a header name whose key serializes, and the items before
\* it resolve against the request
IsHeaderTurn(items, i, request) ==
    /\ items[i].value.s \notin reservedComponents
    /\ encodeItem(items[i]).ok
    /\ VerifyPairs(SubSeq(items, 1, i - 1), request, <<>>).kind = "ok"

\* the call of createSignatureForRequest in progress has reached its loop
SignerReachedLoop ==
    /\ sPc # "idle"
    /\ encodeDict(<<Member(sIn.signatureLabel,
                           InnerList([i \in 1..Len(sIn.signatureInputs) |->
                                         ItemOfInput(sIn.signatureInputs[i])],
                                     sIn.additionalParams))>>).ok

\* the call of verifySignatureOfRequest in progress has reached its rebuild stage
VerifierReachedRebuild ==
    /\ vPc \in {"awaitVerify", "done"}
    /\ VerifyParse(vIn).kind = "ok"
    /\ VerifyPolicy(vIn, VerifyParse(vIn), vCalledAt).kind = "ok"
    /\ DigestStagePassed(vIn, VerifyParse(vIn))

\* C12 as stated: an identifier that is none of the reserved derived
\* components resolves to the value of the request header of that name,
\* looked up without regard to case; if the request has no such header,
\* createSignatureForRequest and the rebuild stage of verifySignatureOfRequest
\* fail with the validation error 'Missing header: <name>' whose context
\* embeds the serialized component key, and no signature base is produced.
HeaderComponentsResolveOrFail ==
    /\ SignerReachedLoop =>
          LET items == [i \in 1..Len(sIn.signatureInputs) |-> ItemOfInput(sIn.signatureInputs[i])]
          IN  \A i \in 1..Len(items) :
                IsHeaderTurn(items, i, sIn.request) =>
                    IF HeaderValues(sIn.request, items[i].value.s) # {}
                    THEN sLoc # None =>
                            \E v \in HeaderValues(sIn.request, items[i].value.s) :
                                SplitLines(sLoc.signatureBase, 1, <<>>)[i]
                                    = encodeItem(items[i]).val \o <<Pn(": ")>> \o v
                    ELSE /\ sPc = "done"
                         /\ IsMissingHeaderError(sResult, items[i].value.s, encodeItem(items[i]).val)
                         /\ sLoc = None /\ signCalls = 0
    /\ VerifierReachedRebuild =>
          LET items == VerifyParse(vIn).signatureInput
          IN  \A i \in 1..Len(items) :
                IsHeaderTurn(items, i, vIn.request) =>
                    IF HeaderValues(vIn.request, items[i].value.s) # {}
                    THEN verifyCalls = 1 =>
                            \E v \in HeaderValues(vIn.request, items[i].value.s) :
                                SplitLines(vCallCtx.signatureBase, 1, <<>>)[i]
                                    = encodeItem(items[i]).val \o <<Pn(": ")>> \o v
                    ELSE /\ vPc = "done"
                         /\ IsMissingHeaderError(vResult, items[i].value.s, encodeItem(items[i]).val)
                         /\ verifyCalls = 0

\* the indices of the URL's query pairs under the key
QueryIndices(url, key) == {j \in 1..Len(url.searchParams) : url.searchParams[j][1] = key}

\* what the claim says of an @query-param item with serialized key `key`: the
\* outcome of the call is `result`, `base` is the base it built (None if none)
\* and `calls` the number of callback invocations
QueryParamResolvesOrFails(item, key, i, url, done, result, base, calls) ==
    LET name == ParamGet(item.params, "name")
    IN  IF name = Undefined \/ name = Str("")
        THEN /\ done /\ result.kind = "err"
             /\ result.error.type = "validation"
             /\ result.error.message = <<Raw("Invalid signature input")>>
             /\ EndsWith(result.error.context,
                         <<Raw("Signature input is missing required parameter \"name\" in signature input for field ")>> \o key)
             /\ calls = 0
        ELSE IF name.k = "str" /\ QueryIndices(url, name.s) = {}
        THEN /\ done /\ result.kind = "err"
             /\ result.error.type = "validation"
             /\ result.error.message = <<Raw("Missing query parameter: "), name>>
             /\ calls = 0
        ELSE (name.k = "str" /\ base # None) =>
                LET first == CHOOSE j \in QueryIndices(url, name.s) :
                                 \A k \in QueryIndices(url, name.s) : j <= k
                IN  SplitLines(base.signatureBase, 1, <<>>)[i]
                        = key \o <<Pn(": ")>> \o url.searchParams[first][2]

\* C13: an @query-param component resolves, when signing and when verifying,
\* to the first value of the URL query key named by its name parameter; the
\* call fails with the validation error 'Invalid signature input' (missing
\* required parameter name) when name is absent or empty, and with the
\* validation error 'Missing query parameter: <name>' when the URL has no
\* query key of that name.
QueryParamIsFirstValueOrFails ==
    /\ SignerReachedLoop =>
          LET items == [i \in 1..Len(sIn.signatureInputs) |-> ItemOfInput(sIn.signatureInputs[i])]
          IN  \A i \in 1..Len(items) :
                (/\ items[i].value = Str("@query-param")
                 /\ encodeItem(items[i]).ok
                 /\ SignPairs(SubSeq(sIn.signatureInputs, 1, i - 1), sIn.request, <<>>).kind = "ok")
                => QueryParamResolvesOrFails(items[i], encodeItem(items[i]).val, i,
                                             sIn.request.url, sPc = "done", sResult, sLoc,
                                             signCalls)
    /\ VerifierReachedRebuild =>
          LET items == VerifyParse(vIn).signatureInput
          IN  \A i \in 1..Len(items) :
                (/\ items[i].value = Str("@query-param")
                 /\ encodeItem(items[i]).ok
                 /\ VerifyPairs(SubSeq(items, 1, i - 1), vIn.request, <<>>).kind = "ok")
                => QueryParamResolvesOrFails(items[i], encodeItem(items[i]).val, i,
                                             vIn.request.url, vPc = "done", vResult,
                                             IF verifyCalls = 1 THEN vCallCtx ELSE None,
                                             verifyCalls)

\* a verifier rebuilt the base from the first of two values of a query key
QueryParamOfTwoValues ==
    /\ VerifierReachedRebuild /\ vPc = "awaitVerify" /\ verifyCalls = 1
    /\ vIn.verify.mode # "matching"
    /\ VerifyParse(vIn).signatureInput[1].value = Str("@query-param")
    /\ Cardinality(QueryIndices(vIn.request.url,
                                ParamGet(VerifyParse(vIn).signatureInput[1].params, "name").s)) = 2

\* C14: in createSignatureForRequest, if the promise of the sign callback
\* rejects, the result is a failure of type 'error' with message 'Failed to
\* sign request' and the rejection as its context; if the callback resolves
\* to a failure outcome, the result is that error unchanged; in both cases
\* the result carries no signatureInput, signature or signatureBase.
SignCallbackFailuresPropagate ==
    (sPc = "done" /\ signCalls = 1) =>
        /\ SignOutcome(sIn.sign).kind = "reject" =>
              /\ sResult.kind = "err"
              /\ sResult.error = [type |-> "error",
                                  message |-> <<Raw("Failed to sign request")>>,
                                  context |-> <<Raw(SignOutcome(sIn.sign).reason)>>]
        /\ SignOutcome(sIn.sign).kind = "err" =>
              /\ sResult.kind = "err"
              /\ sResult = SignOutcome(sIn.sign)
        /\ sResult.kind = "err" => DOMAIN sResult = {"kind", "error"}

\* the sign callback was invoked and its promise rejected
SignPromiseRejected ==
    /\ sPc = "done" /\ signCalls = 1
    /\ sIn.sign.mode = "reject"
    /\ sLoc # None

\* the call in progress invoked the verify callback and has returned
VerifyCallbackSettled == vPc = "done" /\ verifyCalls = 1

\* C15 as stated: in verifySignatureOfRequest, a verify callback whose
\* promise rejects yields a failure of kind 'error', the kind
\* createSignatureForRequest uses for a rejected sign callback; a callback
\* that resolves to a failure outcome yields that error unchanged, and one
\* that resolves to success yields its success value unchanged.
VerifyCallbackOutcomePropagates ==
    VerifyCallbackSettled =>
        LET outcome == VerifyOutcome(vIn.verify, vCallCtx)
        IN  /\ outcome.kind = "reject" =>
                  /\ vResult.kind = "err"
                  /\ vResult.error.type = SignFailedError(outcome.reason).type
                  /\ vResult.error.type = "error"
            /\ outcome.kind = "err" => vResult = outcome
            /\ outcome.kind = "ok" => vResult = outcome

\* the outcome is a success or a structured failure
IsStructuredOutcome(result) ==
    \/ result.kind = "ok"
    \/ /\ result.kind = "err"
       /\ DOMAIN result.error = {"type", "message", "context"}

\* C16 as stated: for every input and every behaviour of the callbacks, the
\* promise returned by createSignatureForRequest and by
\* verifySignatureOfRequest resolves to a success or a structured failure
\* outcome; it never rejects and no exception escapes the call.
EveryCallResolves ==
    /\ sPc = "done" => IsStructuredOutcome(sResult)
    /\ vPc = "done" => IsStructuredOutcome(vResult)

\* the call in progress returned a validation error with that context
\* without invoking the verify callback
FailedValidationWith(context) ==
    /\ vPc = "done"
    /\ vResult.kind = "err"
    /\ vResult.error.type = "validation"
    /\ vResult.error.context = context
    /\ verifyCalls = 0

\* C17 as stated: whatever requiredParams holds, verifySignatureOfRequest
\* requires the parsed parameter created: when it is absent the call fails
\* with a validation error whose context is 'Missing required parameter
\* "created" in signature input'; when it is present but not a number the
\* call fails with a validation error whose context is 'Invalid parameter
\* "created" in signature input'; in neither case is the verify callback
\* invoked.
CreatedMustBeANumber ==
    ReachedFreshness =>
        LET params == VerifyParse(vIn).signatureInputParams
            present == \E i \in 1..Len(params) : params[i].key = "created"
        IN  /\ ~present =>
                  FailedValidationWith(
                      <<Raw("Missing required parameter \""), Raw("created"),
                        Raw("\" in signature input")>>)
            /\ (present /\ ParamGet(params, "created").k # "int") =>
                  FailedValidationWith(
                      <<Raw("Invalid parameter \"created\" in signature input")>>)

\* line i of the base is the @authority line for the URL's host, which
\* carries ":" and the port when the port is not the default of the scheme
IsAuthorityLineOfHost(base, i, url) ==
    SplitLines(base, 1, <<>>)[i] = <<Str("@authority"), Pn(": ")>> \o url.host

\* C18 as stated: the @authority component resolves, in
\* createSignatureForRequest and in verifySignatureOfRequest, to the URL's
\* host followed by ':' and the port whenever the URL carries a port that is
\* not the default for its scheme, and to the host alone otherwise.
AuthorityIsHostAndPort ==
    /\ sLoc # None =>
          \A i \in 1..Len(sIn.signatureInputs) :
              sIn.signatureInputs[i] = Simple("@authority") =>
                  IsAuthorityLineOfHost(sLoc.signatureBase, i, sIn.request.url)
    /\ (vPc # "idle" /\ verifyCalls = 1) =>
          \A i \in 1..Len(VerifyParse(vIn).signatureInput) :
              VerifyParse(vIn).signatureInput[i] = Comp("@authority") =>
                  IsAuthorityLineOfHost(vCallCtx.signatureBase, i, vIn.request.url)

\* the text parses as a dictionary with an entry under the label
EntryUnder(text, label) ==
    IF decodeDict(text).ok /\ DictHas(decodeDict(text).val, label)
    THEN <<DictGet(decodeDict(text).val, label)>>
    ELSE <<>>

\* the Signature-Input header holds, under the label, a non-empty list of
\* items with string values
InputSideWellFormed(in) ==
    LET entry == EntryUnder(in.stringOfSignatureInputDictionary, in.signatureLabel)
    IN  /\ entry # <<>>
        /\ entry[1].kind = "inner"
        /\ Len(entry[1].items) >= 1
        /\ \A i \in 1..Len(entry[1].items) : entry[1].items[i].value.k = "str"

\* the Signature header holds, under the label, a byte sequence
SignatureSideWellFormed(in) ==
    LET entry == EntryUnder(in.stringOfSignatureDictionary, in.signatureLabel)
    IN  /\ entry # <<>>
        /\ entry[1].kind = "bare"
        /\ entry[1].value.k = "bin"

\* the call in progress returned the validation error `error` of the parse
\* stage with that message, and ran nothing after that stage
FailedParseWith(message, errors) ==
    /\ vPc = "done"
    /\ vResult.kind = "err"
    /\ vResult.error.type = "validation"
    /\ vResult.error.message = message
    /\ vResult.error \in errors
    /\ digestCalls = 0 /\ verifyCalls = 0

\* C19: verifySignatureOfRequest fails with a validation error, with message
\* 'Invalid signature input' for the signature-input side and 'Invalid
\* signature' for the signature side, unless both parsed dictionaries hold an
\* entry under the label, the input entry is a non-empty list whose items all
\* have string values, and the signature entry is a byte sequence; no later
\* stage runs in that case.
MalformedEntriesFailValidation ==
    vPc # "idle" =>
        /\ ~InputSideWellFormed(vIn) =>
              FailedParseWith(<<Raw("Invalid signature input")>>,
                              {InputParseError, InputLabelError(vIn.signatureLabel),
                               InputShapeError(vIn.signatureLabel), InputItemError})
        /\ (InputSideWellFormed(vIn) /\ ~SignatureSideWellFormed(vIn)) =>
              FailedParseWith(<<Raw("Invalid signature")>>,
                              {SignatureParseError, SignatureLabelError(vIn.signatureLabel),
                               SignatureShapeError})

\* the signature entry under the label is a string, and the signature would
\* have expired had the freshness stage run
StringSignatureOfOldInput ==
    /\ vPc = "done"
    /\ InputSideWellFormed(vIn)
    /\ EntryUnder(vIn.stringOfSignatureDictionary, vIn.signatureLabel) # <<>>
    /\ EntryUnder(vIn.stringOfSignatureDictionary, vIn.signatureLabel)[1].value.k = "str"
    /\ ParamGet(EntryUnder(vIn.stringOfSignatureInputDictionary, vIn.signatureLabel)[1].params,
                "created") = Num(1)
    /\ vCalledAt > 1000 * (1 + vIn.maxAge)

\* some identifier of requiredInputs has no matching parsed item
RequiredInputsViolated(in, parsed) ==
    \E i \in 1..Len(in.requiredInputs) :
        \A j \in 1..Len(parsed.signatureInput) :
            ~ExactlyMatches(parsed.signatureInput[j], in.requiredInputs[i])

\* the names of requiredParams that are no key of the parsed parameters
MissingParamsOf(in, parsed) ==
    {in.requiredParams[i] : i \in 1..Len(in.requiredParams)}
        \ {parsed.signatureInputParams[i].key : i \in 1..Len(parsed.signatureInputParams)}

\* the item does not resolve against the request: a header the request
\* lacks, or an @query-param without a usable name or without its query key
Unresolvable(item, request) ==
    IF item.value = Str("@query-param")
    THEN LET name == ParamGet(item.params, "name")
         IN  \/ name = Undefined
             \/ name = Str("")
             \/ name.k # "str"
             \/ QueryIndices(request.url, name.s) = {}
    ELSE /\ item.value.s \notin reservedComponents
         /\ HeaderValues(request, item.value.s) = {}

\* the error is one the digest-binding stage returns
IsDigestStageError(error) ==
    /\ error.type = "validation"
    /\ \/ error.context = <<Raw("Missing required header \"content-digest\"")>>
       \/ error.message[1] \in
             { Raw("Invalid value for header \"content-digest\""),
               Raw("Unsupported content-digest algorithm: "),
               Raw("Invalid digest for algorithm "),
               Raw("Failed to calculate digest for algorithm "),
               Raw("Digest mismatch for algorithm ") }

\* the error is one the rebuild of the base returns
IsRebuildStageError(error) ==
    /\ error.type = "validation"
    /\ \/ error.message[1] \in {Raw("Missing header: "), Raw("Missing query parameter: ")}
       \/ /\ error.message = <<Raw("Invalid signature input")>>
          /\ error.context[1] =
                Raw("Signature input is missing required parameter \"name\" in signature input for field ")

\* the result of the call that read the clock `at` is the error of the
\* earliest stage its input violates, or, if it violates none, what the
\* verify callback resolved to
ReportsEarliestViolation(in, parsed, at, result, calls) ==
    LET created == ParamGet(parsed.signatureInputParams, "created")
        absent == \A i \in 1..Len(parsed.signatureInputParams) :
                      parsed.signatureInputParams[i].key # "created"
    IN  IF RequiredInputsViolated(in, parsed)
        THEN /\ calls = 0 /\ result.kind = "err"
             /\ \E i \in 1..Len(in.requiredInputs) :
                    result.error = MissingInputError(in.requiredInputs[i])
        ELSE IF MissingParamsOf(in, parsed) # {}
        THEN /\ calls = 0
             /\ \E name \in MissingParamsOf(in, parsed) : result = err(MissingParamError(name))
        ELSE IF absent
        THEN calls = 0 /\ result = err(MissingParamError("created"))
        ELSE IF created.k # "int"
        THEN calls = 0 /\ result = err(InvalidCreatedError)
        ELSE IF at - created.n * 1000 > in.maxAge * 1000
        THEN calls = 0 /\ result = err(ExpiredError)
        ELSE IF Signs(parsed.signatureInput, "content-digest") /\ ~DeclaresDigestOfBody(in.request)
        THEN calls = 0 /\ result.kind = "err" /\ IsDigestStageError(result.error)
        ELSE IF \E i \in 1..Len(parsed.signatureInput) :
                    Unresolvable(parsed.signatureInput[i], in.request)
        THEN calls = 0 /\ result.kind = "err" /\ IsRebuildStageError(result.error)
        ELSE /\ calls = 1
             /\ result.kind \in {"ok", "err"}
             /\ result.kind = "ok" <=> VerifyOutcome(in.verify, vCallCtx).kind = "ok"

\* C20 as stated: when a verify input violates several stages at once, the
\* error returned is that of the earliest violated stage in the order
\* required inputs, required params, freshness (created missing, then
\* created invalid, then expired), digest binding, base rebuild, delegate: an
\* expired signature whose signed header is absent from the request reports
\* 'Signature expired', and a signed content-digest with no such header is
\* reported before the missing header of any other signed component.
EarliestViolatedStageIsReported ==
    (vPc = "done" /\ VerifyParse(vIn).kind = "ok") =>
        ReportsEarliestViolation(vIn, VerifyParse(vIn), vCalledAt, vResult, verifyCalls)

\* C21 as stated: both header texts are parsed before any label lookup or
\* shape check is decided: if the signature header text fails to parse, the
\* call fails with the signature parse error (message 'Invalid signature')
\* even when the signature-input dictionary parses but lacks the entry under
\* the label or holds a malformed entry.
SignatureParseErrorComesFirst ==
    (/\ vPc # "idle"
     /\ decodeDict(vIn.stringOfSignatureInputDictionary).ok
     /\ ~decodeDict(vIn.stringOfSignatureDictionary).ok) =>
        /\ vPc = "done"
        /\ vResult.kind = "err"
        /\ vResult.error.type = "validation"
        /\ vResult.error.message = <<Raw("Invalid signature")>>
        /\ vResult.error = SignatureParseError

\* the identifiers of the call of createSignatureForRequest in progress that
\* do not resolve against its request
UnresolvedIdentifiers ==
    {i \in 1..Len(sIn.signatureInputs) :
        SignPair(sIn.signatureInputs[i], sIn.request).kind # "ok"}

\* C22: in createSignatureForRequest the sign callback is invoked at most
\* once, and never when encoding the signature input or resolving an
\* identifier fails: the first failing identifier in list order aborts the
\* call and no base or signature is returned; when the callback is invoked,
\* the signatureBase it receives is the signatureBase the successful result
\* returns.
SignCallbackOnceAfterResolution ==
    sPc # "idle" =>
        /\ signCalls <= 1
        /\ (~SignerReachedLoop \/ UnresolvedIdentifiers # {}) =>
              /\ signCalls = 0 /\ sLoc = None
              /\ sPc = "done" /\ sResult.kind # "ok"
        /\ (SignerReachedLoop /\ UnresolvedIdentifiers # {}) =>
              LET first == CHOOSE i \in UnresolvedIdentifiers :
                               \A j \in UnresolvedIdentifiers : i <= j
                  turn == SignPair(sIn.signatureInputs[first], sIn.request)
              IN  turn.kind = "err" => sResult = err(turn.error)
        /\ (sPc = "done" /\ sResult.kind = "ok") =>
              /\ signCalls = 1
              /\ sResult.value.signatureBase = sLoc.signatureBase

\* the second of two identifiers does not resolve
SecondIdentifierFailed ==
    /\ sPc = "done"
    /\ Len(sIn.signatureInputs) = 2
    /\ UnresolvedIdentifiers = {2}
    /\ sResult.kind = "err"

\* C23: two verifySignatureOfRequest calls that differ only in requiredInputs
\* and requiredParams and that both reach the verify callback hand it the same
\* signatureBase, params and signature; and the base handed to the callback has
\* one line per item of the header's entry, in the header's order, each
\* beginning with the item's encoding, followed by the @signature-params line
CallbackContextIgnoresRequirements ==
    /\ (vPrev # None /\ vPrev.verifyCalls = 1 /\ verifyCalls = 1
            /\ vPrev.in # vIn
            /\ vPrev.in = [vIn EXCEPT !.requiredInputs = vPrev.in.requiredInputs,
                                      !.requiredParams = vPrev.in.requiredParams]) =>
          /\ vCallCtx.signatureBase = vPrev.ctx.signatureBase
          /\ vCallCtx.params = vPrev.ctx.params
          /\ vCallCtx.signature = vPrev.ctx.signature
    /\ verifyCalls = 1 =>
          LET entry == EntryUnder(vIn.stringOfSignatureInputDictionary, vIn.signatureLabel)
              lines == SplitLines(vCallCtx.signatureBase, 1, <<>>)
          IN  /\ Len(entry) = 1
              /\ Len(lines) = Len(entry[1].items) + 1
              /\ \A i \in 1..Len(entry[1].items) :
                    /\ encodeItem(entry[1].items[i]).ok
                    /\ Len(lines[i]) > Len(encodeItem(entry[1].items[i]).val)
                    /\ SubSeq(lines[i], 1, Len(encodeItem(entry[1].items[i]).val) + 1) =
                          encodeItem(entry[1].items[i]).val \o <<Pn(": ")>>
              /\ lines[Len(lines)][1] = Str("@signature-params")

\* both calls reached the callback, the first requiring one of the header's two
\* components and the created parameter, the second requiring nothing
TwoCallsUnderOtherRequirements ==
    /\ vPrev # None /\ vPrev.verifyCalls = 1 /\ verifyCalls = 1
    /\ vPrev.in.requiredInputs # <<>> /\ vPrev.in.requiredParams # <<>>
    /\ vIn.requiredInputs = <<>> /\ vIn.requiredParams = <<>>
    /\ vPrev.in.request = vIn.request
    /\ Len(EntryUnder(vIn.stringOfSignatureInputDictionary, vIn.signatureLabel)) = 1
    /\ Len(EntryUnder(vIn.stringOfSignatureInputDictionary, vIn.signatureLabel)[1].items) = 2

\* C24: a call that reaches the freshness check with an integer created
\* parameter never reports created as missing, and with created = 0 and a clock
\* past maxAge seconds it fails with 'Signature expired'
IntegerCreatedIsPresent ==
    (/\ ReachedFreshness
     /\ ParamGet(VerifyParse(vIn).signatureInputParams, "created").k = "int") =>
        /\ ~(vPc = "done" /\ vResult = err(MissingParamError("created")))
        /\ (/\ ParamGet(VerifyParse(vIn).signatureInputParams, "created").n = 0
            /\ vCalledAt > vIn.maxAge * 1000) =>
              (vPc = "done" /\ vResult = err(ExpiredError))

\* C25: a call that reaches the freshness check with an integer created later
\* than the verifier's clock passes the freshness stage, whatever maxAge is
FutureCreatedIsFresh ==
    (/\ ReachedFreshness
     /\ ParamGet(VerifyParse(vIn).signatureInputParams, "created").k = "int"
     /\ ParamGet(VerifyParse(vIn).signatureInputParams, "created").n * 1000 > vCalledAt) =>
        ~FailedFreshness

\* created lies two seconds ahead of the clock, maxAge is 0, and the call went
\* on to the verify callback
CreatedTwoSecondsAhead ==
    /\ ReachedFreshness
    /\ ParamGet(VerifyParse(vIn).signatureInputParams, "created") = Num(2)
    /\ vCalledAt = 0 /\ vIn.maxAge = 0
    /\ verifyCalls = 1

\* what createSignatureForRequest returns for `in` when no other call is in flight
SignAlone(in) ==
    LET Settled(head) ==
            IF head.kind = "return" THEN head.result
            ELSE SignTail(in, [signatureInput |-> head.signatureInput,
                               signatureBase |-> head.signatureBase],
                          SignOutcome(in.sign))
    IN  Settled(SignHead(in))

\* what verifySignatureOfRequest, called at `nowMs`, returns for `in` and hands
\* to its callback when no other call is in flight
VerifyAlone(in, nowMs) ==
    LET AfterVerify(step) ==
            IF step.pc = "awaitVerify"
            THEN [result |-> VerifyTail(VerifyOutcome(in.verify, step.ctx)), ctx |-> step.ctx]
            ELSE [result |-> step.result, ctx |-> None]
        AfterDigestOf(step) ==
            IF step.pc = "awaitDigest"
            THEN AfterVerify(AfterDigestTail(in, step.loc,
                     VerifyDigestTail(step.loc.algorithm, step.loc.providedDigest,
                                      SubtleDigest(step.loc.algorithm, in.request.body))))
            ELSE AfterVerify(step)
    IN  AfterDigestOf(VerifyHead(in, nowMs))

EachCallReturnsItsOwnOutcome ==
    /\ sPc = "done" => sResult = SignAlone(sIn)
    /\ vPc = "done" =>
          /\ vResult = VerifyAlone(vIn, vCalledAt).result
          /\ vCallCtx = VerifyAlone(vIn, vCalledAt).ctx
    /\ (vPc = "done" /\ vPrev # None /\ vPrev.in = vIn /\ vPrev.calledAt = vCalledAt) =>
          /\ vResult = vPrev.result
          /\ vCallCtx = vPrev.ctx

ArgumentsStayAsGiven ==
    /\ sPc = "awaitSign" => sIn' = sIn
    /\ vPc \in {"awaitDigest", "awaitVerify"} => vIn' = vIn

SignedTextsPassParseStages ==
    IsRoundTrip => VerifyParse(vIn).kind = "ok"

\* C28: whenever the verify callback was called with a base holding a line read
\* from the request's content-digest header (the header lookup ignores letter
\* case), the digest primitive was run on the request body and the digest the
\* header declares is the body's
DigestLineImpliesBodyBinding ==
    (/\ verifyCalls = 1
     /\ VerifyParse(vIn).kind = "ok"
     /\ \E i \in 1..Len(VerifyParse(vIn).signatureInput) :
           Lower(VerifyParse(vIn).signatureInput[i].value.s) = "content-digest") =>
        /\ digestCalls = 1
        /\ DeclaresDigestOfBody(vIn.request)

\* C29: the clock is read once per call, before the awaits: a call returns
\* 'Signature expired' only before any await and only if created was older than
\* maxAge at the time of the call, and a call whose integer created is within
\* maxAge at the time of the call, whose other stages pass and whose callback
\* accepts, returns ok however much time passed while it was suspended
ClockIsReadOncePerCall ==
    /\ (vPc = "done" /\ vResult = err(ExpiredError)) =>
          /\ digestCalls = 0 /\ verifyCalls = 0
          /\ ParamGet(VerifyParse(vIn).signatureInputParams, "created").k = "int"
          /\ vCalledAt - ParamGet(VerifyParse(vIn).signatureInputParams, "created").n * 1000
                > vIn.maxAge * 1000
    /\ (/\ vPc = "done"
        /\ ReachedFreshness
        /\ ParamGet(VerifyParse(vIn).signatureInputParams, "created").k = "int"
        /\ vCalledAt - ParamGet(VerifyParse(vIn).signatureInputParams, "created").n * 1000
              <= vIn.maxAge * 1000
        /\ DigestStagePassed(vIn, VerifyParse(vIn))
        /\ VerifyRebuild(vIn, VerifyParse(vIn)).kind = "ok"
        /\ vIn.verify.mode = "accept") =>
          vResult = ok(TRUE)

====
